---- MODULE Spec2Model ----
(***************************************************************************)
(* A model of the Power Load Balancer integration                          *)
(* (custom_components/power_load_balancer).                                *)
(*                                                                         *)
(*   Spec         the control loop that is wired into the platform:        *)
(*                PowerLoadBalancer (power_balancer.py), its event         *)
(*                handlers, its evaluation and its actuation coroutines.   *)
(*                                                                         *)
(* Watts are small naturals; entity states are the strings the platform    *)
(* reports.                                                                *)
(***************************************************************************)
EXTENDS Integers, Sequences, FiniteSets, TLC

(***************************************************************************)
(* Bounds of the model.                                                    *)
(***************************************************************************)
\* largest value a circuit sensor reports
MaxWatt == 1

\* most events from outside (readings, switch flips, external changes of an
\* appliance) in one run; the steps of the event loop they cause are not
\* counted
MaxSteps == 1

\* most coroutines the event loop holds at once while the main meter goes on
\* reporting
MaxTasks == 2

(***************************************************************************)
(* Configuration: config_data as assembled by the setup layer.             *)
(***************************************************************************)
\* config_data[CONF_POWER_BUDGET_WATT]
power_budget == 2

\* largest value the main meter reports: over the budget by what a circuit
\* can draw
MaxMain == power_budget + MaxWatt

\* x.get(CONF_IMPORTANCE, 5): the importance of an entry that gives none
DefaultImportance == 5

main_power_sensor_entity_id == "sensor.main"

Sensors == {"sensor.s1", "sensor.s2"}

Appliances == {"switch.a1", "switch.a2"}

\* One entry of config_data[CONF_POWER_SENSORS].
SensorConfig(s, a, imp, lr) ==
    [entity_id |-> s, appliance |-> a, importance |-> imp, last_resort |-> lr]

\* An entry that leaves out the optional keys importance and last_resort.
SensorConfigDefaults(s, a) == [entity_id |-> s, appliance |-> a]

\* The configurations the model runs under: two entries listed against
\* their order of importance, and a last-resort entry of the lowest
\* importance next to an entry that leaves the optional keys out.
Configs ==
    { << SensorConfig("sensor.s1", "switch.a1", 7, FALSE),
         SensorConfig("sensor.s2", "switch.a2", 3, FALSE) >>,
      << SensorConfig("sensor.s1", "switch.a1", 1, TRUE),
         SensorConfigDefaults("sensor.s2", "switch.a2") >> }

(***************************************************************************)
(* Platform values.                                                        *)
(***************************************************************************)
\* A state object of hass.states: .state is what the entity reports and
\* unit its unit_of_measurement attribute, in lower case.  A numeric report
\* is [kind |-> "num", v |-> n]; "text" is a report float() rejects;
\* "unknown" and "unavailable" are the platform's own markers; "none" is an
\* absent state object (new_state is None).  The sensors of the model report
\* in watts.
Num(n) == [kind |-> "num", v |-> n, unit |-> "w"]

Txt(k) == [kind |-> k, v |-> 0, unit |-> "w"]

NoState == Txt("none")


SensorReports ==
    {Num(n) : n \in -1..MaxWatt} \cup {Txt("text"), Txt("unavailable"), NoState}

MainReports ==
    {Num(n) : n \in -1..MaxMain} \cup {Txt("text"), Txt("unknown"), NoState}

ApplianceStates == {"on", "off", "unavailable"}

\* The marker of a key that is not in a dict.
Absent == -1

VARIABLES
    monitored_sensors,      \* PowerLoadBalancer._monitored_sensors
    is_balancing_enabled,   \* PowerLoadBalancer._is_balancing_enabled
    estimated_total_power,  \* PowerLoadBalancer._estimated_total_power
    current_sensor_power,   \* PowerLoadBalancer._current_sensor_power
    balanced_off,           \* keys of _balanced_off_appliances, insertion order
    hass_states,            \* hass.states of the appliances
    tasks,                  \* coroutines of the event loop that have not ended
    events,                 \* state_changed events not yet handled
    last,                   \* what the last step did (history)
    events_left,            \* events from outside the run may still see
    scheduled_auto_turn_ons,    \* ApplianceController._scheduled_auto_turn_ons
    expected_power_restoration, \* ApplianceController._expected_power_restoration
    breaker_state,          \* CircuitBreaker.state
    failure_count,          \* CircuitBreaker.failure_count
    last_failure_time,      \* CircuitBreaker.last_failure_time
    now                     \* time.time()

\* The fields of the control loop and of the components that share their
\* names (PowerMonitor, ApplianceController), with the platform around them.
loop_vars ==
    << monitored_sensors, is_balancing_enabled, estimated_total_power,
       current_sensor_power, balanced_off, hass_states, tasks,
       events, last, events_left >>

\* The same without the history.
loop_vars_but_last ==
    << monitored_sensors, is_balancing_enabled, estimated_total_power,
       current_sensor_power, balanced_off, hass_states, tasks,
       events, events_left >>

\* The timer registry of ApplianceController.
timer_vars == << scheduled_auto_turn_ons, expected_power_restoration >>

\* The fields of CircuitBreaker and the clock it reads.
breaker_vars == << breaker_state, failure_count, last_failure_time, now >>

vars == << loop_vars, timer_vars, breaker_vars >>

(***************************************************************************)
(* Helpers on sequences.                                                   *)
(***************************************************************************)
Range(s) == {s[i] : i \in DOMAIN s}

RemoveAt(s, i) == SubSeq(s, 1, i - 1) \o SubSeq(s, i + 1, Len(s))

\* dict.pop(key, None) on the keys of an insertion-ordered dict
RECURSIVE DictPop(_, _)
DictPop(keys, k) ==
    IF keys = << >> THEN << >>
    ELSE IF Head(keys) = k THEN DictPop(Tail(keys), k)
    ELSE << Head(keys) >> \o DictPop(Tail(keys), k)

(***************************************************************************)
(* Validation and conversion of a reported power value.                    *)
(***************************************************************************)
\* validate_power_value: float(value), rejecting None, text and negatives.
\* TRUE when it returns, FALSE when it raises PowerSensorError.
validate_power_value_ok(state) == state.kind = "num" /\ state.v >= 0

\* The float validate_power_value returns.
validate_power_value(state) == state.v

\* convert_power_to_watts of validation.py, unit being
\* state.attributes.get("unit_of_measurement", "W").lower()
convert_power_to_watts(power, unit) ==
    CASE unit \in {"kw", "kilowatt", "kilowatts"} -> power * 1000
      [] unit \in {"mw", "megawatt", "megawatts"} -> power * 1000000
      [] unit \in {"gw", "gigawatt", "gigawatts"} -> power * 1000000000
      [] OTHER -> power

\* PowerLoadBalancer._convert_power_to_watts, which knows no gigawatts
balancer_convert_power_to_watts(power, unit) ==
    CASE unit \in {"kw", "kilowatt", "kilowatts"} -> power * 1000
      [] unit \in {"mw", "megawatt", "megawatts"} -> power * 1000000
      [] OTHER -> power

(***************************************************************************)
(* Lookups in the configuration.                                           *)
(***************************************************************************)
\* x.get(CONF_IMPORTANCE, 5)
Importance(cfg) ==
    IF "importance" \in DOMAIN cfg THEN cfg.importance ELSE DefaultImportance

\* sensor_config.get(CONF_LAST_RESORT, False)
IsLastResort(cfg) ==
    IF "last_resort" \in DOMAIN cfg THEN cfg.last_resort ELSE FALSE

\* _get_sensor_for_appliance: the sensor of the first entry naming the
\* appliance, "" (None) when no entry names it.
RECURSIVE SensorOfIn(_, _)
SensorOfIn(cfgs, a) ==
    IF cfgs = << >> THEN ""
    ELSE IF Head(cfgs).appliance = a THEN Head(cfgs).entity_id
    ELSE SensorOfIn(Tail(cfgs), a)

get_sensor_for_appliance(a) == SensorOfIn(monitored_sensors, a)

\* _get_sensor_power_for_appliance: the tracked wattage, 0.0 when untracked.
get_sensor_power_for_appliance(csp, a) ==
    LET s == get_sensor_for_appliance(a)
    IN  IF s /= "" /\ csp[s] /= Absent THEN csp[s] ELSE 0

(***************************************************************************)
(* sorted(self._monitored_sensors, key=importance): a stable sort.         *)
(***************************************************************************)
\* x placed behind every element of the sorted s whose key is not larger.
RECURSIVE InsertSorted(_, _)
InsertSorted(s, x) ==
    IF s = << >> THEN << x >>
    ELSE IF Importance(x) < Importance(Head(s)) THEN << x >> \o s
    ELSE << Head(s) >> \o InsertSorted(Tail(s), x)

\* A variant of the sort that leaves the entries in configuration order.
configured_order(s) == s

\* A variant of the sort that is not stable: entries of equal importance
\* come out in the reverse of their order in s.
RECURSIVE sorted_ties_reversed(_)
sorted_ties_reversed(s) ==
    IF s = << >> THEN << >>
    ELSE InsertSorted(sorted_ties_reversed(Tail(s)), Head(s))

RECURSIVE sorted_by_importance(_)
sorted_by_importance(s) ==
    IF s = << >> THEN << >>
    ELSE InsertSorted(sorted_by_importance(SubSeq(s, 1, Len(s) - 1)), s[Len(s)])

(***************************************************************************)
(* The evaluation of PowerLoadBalancer.  A handler runs to its first await *)
(* without interruption, so its synchronous part is one step; the          *)
(* operators below thread the balancer's fields through that part as a     *)
(* record st: enabled, est, csp, ledger, tasks, and evals, the log of the  *)
(* evaluation runs of the handler (history).                               *)
(***************************************************************************)
St ==
    [enabled |-> is_balancing_enabled, est |-> estimated_total_power,
     csp |-> current_sensor_power, ledger |-> balanced_off, tasks |-> tasks,
     evals |-> << >>]

\* What one run of async_check_and_balance did: whether it ran the shedding
\* policy, the appliances it asked to turn off and the watts it subtracted.
EvalEntry(down, shed, cut) == [down |-> down, shed |-> shed, cut |-> cut]

\* The coroutine turn_off_task of _balance_down, as created.
PolicyOffTask(a) == [kind |-> "policy_off", app |-> a, pc |-> "created", attempt |-> 0]

\* A variant of the guard that lets a last-resort appliance be shed.
eligible_last_resort_too(cfg, ledger) ==
    /\ hass_states[cfg.appliance] = "on"
    /\ cfg.appliance \notin Range(ledger)

\* The guard of the loop of _balance_down.
Eligible(cfg, ledger) ==
    /\ hass_states[cfg.appliance] = "on"
    /\ cfg.appliance \notin Range(ledger)
    /\ ~IsLastResort(cfg)

\* A variant of the body of the loop that leaves the estimate to the next
\* reading of the main meter.
shed_keeping_estimate(cfg, st) ==
    LET a == cfg.appliance
        n == Len(st.evals)
    IN  [st EXCEPT !.tasks = Append(@, PolicyOffTask(a)),
                   !.evals[n] = EvalEntry(TRUE, Append(@.shed, a), @.cut)]

\* The body of the loop for the entry it selects: the optimistic reduction
\* and the creation of the turn-off task.
Shed(cfg, st) ==
    LET a == cfg.appliance
        w == get_sensor_power_for_appliance(st.csp, a)
        n == Len(st.evals)
        cut == IF w > 0 THEN w ELSE 0
    IN  [st EXCEPT !.est = @ - cut,
                   !.tasks = Append(@, PolicyOffTask(a)),
                   !.evals[n] = EvalEntry(TRUE, Append(@.shed, a), @.cut + cut)]

\* A variant of the loop of _balance_down that goes on to the next entry
\* after it has shed one.
RECURSIVE balance_down_every(_, _)
balance_down_every(order, st) ==
    IF order = << >> THEN st
    ELSE IF Eligible(Head(order), st.ledger)
         THEN balance_down_every(Tail(order), Shed(Head(order), st))
         ELSE balance_down_every(Tail(order), st)

\* The loop of _balance_down over the sorted entries: it returns after the
\* first entry it sheds.
RECURSIVE balance_down_loop(_, _)
balance_down_loop(order, st) ==
    IF order = << >> THEN st
    ELSE IF Eligible(Head(order), st.ledger) THEN Shed(Head(order), st)
    ELSE balance_down_loop(Tail(order), st)

balance_down(st) ==
    balance_down_loop(sorted_by_importance(monitored_sensors), st)

\* A variant of async_check_and_balance that sheds at the budget already.
check_and_balance_at_budget(st) ==
    IF ~st.enabled THEN st
    ELSE IF st.est >= power_budget
         THEN balance_down([st EXCEPT !.evals = Append(@, EvalEntry(TRUE, << >>, 0))])
         ELSE [st EXCEPT !.evals = Append(@, EvalEntry(FALSE, << >>, 0))]

\* async_check_and_balance
async_check_and_balance(st) ==
    IF ~st.enabled THEN st
    ELSE IF st.est > power_budget
         THEN balance_down([st EXCEPT !.evals = Append(@, EvalEntry(TRUE, << >>, 0))])
         ELSE [st EXCEPT !.evals = Append(@, EvalEntry(FALSE, << >>, 0))]

\* The policies a run of async_check_and_balance invoked, from its log: the
\* shedding policy when it found the total over the budget.  Its branch for
\* a total within the budget writes a debug line and invokes nothing.
PoliciesInvoked(entry) == IF entry.down THEN {"balance_down"} ELSE {}

(***************************************************************************)
(* The handlers of PowerLoadBalancer.                                      *)
(***************************************************************************)
\* The history record of a handler: the operation, the entity and the watts
\* it was about, its evaluation runs, and the ledger it found.
Did(op, entity, watts, st) ==
    [op |-> op, entity |-> entity, watts |-> watts, evals |-> st.evals,
     ledger_before |-> balanced_off]

\* An event from outside takes one of the events the run may still see; a
\* step of the event loop takes none.
Spend == events_left > 0 /\ events_left' = events_left - 1

\* PowerLoadBalancer keeps no timer registry and guards no call with a
\* breaker: its steps leave those fields as they are.
Outside == Spend /\ UNCHANGED << timer_vars, breaker_vars >>

Inside == UNCHANGED << events_left, timer_vars, breaker_vars >>

\* The balancer's fields after the synchronous part that ends in st.
Commit(st) ==
    /\ estimated_total_power' = st.est
    /\ current_sensor_power' = st.csp
    /\ balanced_off' = st.ledger
    /\ tasks' = st.tasks

\* A variant of _handle_power_sensor_state_change that adds the reading of a
\* circuit sensor to the estimate as well as recording it.
summing_sensor_state_change(entity_id, new_state) ==
    IF new_state.kind \in {"none", "unknown", "unavailable"}
    THEN [st |-> [St EXCEPT !.csp = IF entity_id \in DOMAIN @
                                    THEN [@ EXCEPT ![entity_id] = Absent]
                                    ELSE @],
          op |-> "invalid_reading", watts |-> Absent]
    ELSE IF ~validate_power_value_ok(new_state)
    THEN [st |-> St, op |-> "rejected_reading", watts |-> Absent]
    ELSE LET power_watts == convert_power_to_watts(validate_power_value(new_state),
                                                    new_state.unit)
             st1 == IF entity_id = main_power_sensor_entity_id
                    THEN [St EXCEPT !.est = power_watts]
                    ELSE [St EXCEPT !.csp[entity_id] = power_watts,
                                    !.est = @ + power_watts]
         IN  [st |-> async_check_and_balance(st1), op |-> "reading",
              watts |-> power_watts]

\* A variant of _handle_power_sensor_state_change that evaluates after an
\* event without a usable state as well.
evaluating_sensor_state_change(entity_id, new_state) ==
    IF new_state.kind \in {"none", "unknown", "unavailable"}
    THEN [st |-> async_check_and_balance(
                     [St EXCEPT !.csp = IF entity_id \in DOMAIN @
                                        THEN [@ EXCEPT ![entity_id] = Absent]
                                        ELSE @]),
          op |-> "invalid_reading", watts |-> Absent]
    ELSE IF ~validate_power_value_ok(new_state)
    THEN [st |-> St, op |-> "rejected_reading", watts |-> Absent]
    ELSE LET power_watts == convert_power_to_watts(validate_power_value(new_state),
                                                    new_state.unit)
             st1 == IF entity_id = main_power_sensor_entity_id
                    THEN [St EXCEPT !.est = power_watts]
                    ELSE [St EXCEPT !.csp[entity_id] = power_watts]
         IN  [st |-> async_check_and_balance(st1), op |-> "reading",
              watts |-> power_watts]

\* _handle_power_sensor_state_change for an event of entity_id with
\* new_state: the fields after it, and what it did.
power_sensor_state_change(entity_id, new_state) ==
    IF new_state.kind \in {"none", "unknown", "unavailable"}
    THEN [st |-> [St EXCEPT !.csp = IF entity_id \in DOMAIN @
                                    THEN [@ EXCEPT ![entity_id] = Absent]
                                    ELSE @],
          op |-> "invalid_reading", watts |-> Absent]
    ELSE IF ~validate_power_value_ok(new_state)
    THEN [st |-> St, op |-> "rejected_reading", watts |-> Absent]
    ELSE LET power_watts == convert_power_to_watts(validate_power_value(new_state),
                                                    new_state.unit)
             st1 == IF entity_id = main_power_sensor_entity_id
                    THEN [St EXCEPT !.est = power_watts]
                    ELSE [St EXCEPT !.csp[entity_id] = power_watts]
         IN  [st |-> async_check_and_balance(st1), op |-> "reading",
              watts |-> power_watts]

\* The main meter reports r and the event is handled.
MainSensorEvent(r) ==
    LET out == power_sensor_state_change(main_power_sensor_entity_id, r)
    IN  /\ Outside
        /\ Commit(out.st)
        /\ last' = Did(out.op, main_power_sensor_entity_id, out.watts, out.st)
        /\ UNCHANGED << monitored_sensors, is_balancing_enabled, hass_states,
                        events >>

\* The circuit sensor s reports r and the event is handled.
CircuitSensorEvent(s, r) ==
    LET out == power_sensor_state_change(s, r)
    IN  /\ Outside
        /\ Commit(out.st)
        /\ last' = Did(out.op, s, out.watts, out.st)
        /\ UNCHANGED << monitored_sensors, is_balancing_enabled, hass_states,
                        events >>

\* enable_balancing
enable_balancing ==
    /\ Outside
    /\ is_balancing_enabled' = TRUE
    /\ LET out == async_check_and_balance([St EXCEPT !.enabled = TRUE])
       IN  /\ Commit(out)
           /\ last' = Did("enable", "", Absent, out)
    /\ UNCHANGED << monitored_sensors, hass_states, events >>

\* disable_balancing
disable_balancing ==
    /\ Outside
    /\ is_balancing_enabled' = FALSE
    /\ last' = Did("disable", "", Absent, St)
    /\ UNCHANGED << monitored_sensors, estimated_total_power,
                    current_sensor_power, balanced_off, hass_states,
                    tasks, events >>

\* _calculate_sensor_power: sensor_state, what hass.states holds for the
\* entry's sensor when it is called, in watts; 0.0 when it is missing, not
\* a number or not positive.
calculate_sensor_power(sensor_state) ==
    IF sensor_state.kind /= "num" THEN 0
    ELSE LET current_power ==
                 balancer_convert_power_to_watts(sensor_state.v, sensor_state.unit)
         IN  IF current_power > 0 THEN current_power ELSE 0

\* A variant of _would_exceed_budget that keeps the total under the budget.
would_reach_budget(est, power_to_add) == est + power_to_add >= power_budget

\* _would_exceed_budget
would_exceed_budget(est, power_to_add) == est + power_to_add > power_budget

\* _update_power_estimates
update_power_estimates(st, cfg, power_to_add) ==
    [st EXCEPT !.est = @ + power_to_add, !.csp[cfg.entity_id] = power_to_add]

\* A variant of the ledger insertion for a ledger kept as a list.
append_balanced_off(ledger, a) == Append(ledger, a)

\* self._balanced_off_appliances[entity_id] = {...}: a key the dict holds
\* keeps its place, a new key goes last.
mark_balanced_off(ledger, a) ==
    IF a \in Range(ledger) THEN ledger ELSE Append(ledger, a)

\* The part of _turn_off_appliance and of the turn-off service before their
\* await: "raise" (validate_entity_state raised: ApplianceControlError),
\* "return" (the appliance is not 'on'), "call" (safe_service_call awaited).
turn_off_entry(a) ==
    IF hass_states[a] \in {"unknown", "unavailable"} THEN "raise"
    ELSE IF hass_states[a] /= "on" THEN "return"
    ELSE "call"

\* @retry_with_backoff(max_retries=2, ...) of _turn_off_appliance
max_retries == 2

\* The handler of an appliance event, suspended in _turn_off_appliance.
AdmitOffTask(a, pc, attempt) ==
    [kind |-> "admit_off", app |-> a, pc |-> pc, attempt |-> attempt]

\* The first entry of the configuration that names the appliance.
RECURSIVE ConfigOfIn(_, _)
ConfigOfIn(cfgs, a) ==
    IF cfgs = << >> THEN << >>
    ELSE IF Head(cfgs).appliance = a THEN << Head(cfgs) >>
    ELSE ConfigOfIn(Tail(cfgs), a)

\* _handle_appliance_turn_on up to its first await or its end.  done says
\* whether _handle_appliance_state_change goes on to its own evaluation.
handle_appliance_turn_on(st, a, sensor_state) ==
    LET st1 == [st EXCEPT !.ledger = DictPop(@, a)]
        found == ConfigOfIn(monitored_sensors, a)
    IN  IF found = << >> THEN [st |-> st1, done |-> TRUE]
        ELSE LET cfg == found[1]
                 power_to_add == calculate_sensor_power(sensor_state)
             IN  IF would_exceed_budget(st1.est, power_to_add)
                 THEN CASE turn_off_entry(a) = "raise" ->
                             [st |-> st1, done |-> FALSE]
                        [] turn_off_entry(a) = "return" ->
                             [st |-> st1, done |-> TRUE]
                        [] OTHER ->
                             [st |-> [st1 EXCEPT !.tasks =
                                         Append(@, AdmitOffTask(a, "calling", 0))],
                              done |-> FALSE]
                 ELSE [st |-> async_check_and_balance(
                                 update_power_estimates(st1, cfg, power_to_add)),
                       done |-> TRUE]

\* A variant of _handle_appliance_turn_off that forgets the circuit's
\* wattage without taking it from the estimate.
turn_off_keeping_estimate(st, a) ==
    LET sensor_id == get_sensor_for_appliance(a)
    IN  IF /\ a \notin Range(st.ledger)
           /\ sensor_id /= ""
           /\ st.csp[sensor_id] /= Absent
        THEN [st EXCEPT !.csp[sensor_id] = Absent]
        ELSE st

\* _handle_appliance_turn_off
handle_appliance_turn_off(st, a) ==
    LET sensor_id == get_sensor_for_appliance(a)
    IN  IF /\ a \notin Range(st.ledger)
           /\ sensor_id /= ""
           /\ st.csp[sensor_id] /= Absent
        THEN [st EXCEPT !.est = @ - st.csp[sensor_id],
                        !.csp[sensor_id] = Absent]
        ELSE st

\* _handle_appliance_state_change up to its first await or its end;
\* sensor_state is what hass.states holds for the appliance's sensor.
appliance_state_change(ev, sensor_state) ==
    IF ev.new \in {"none", "unknown", "unavailable"} THEN St
    ELSE IF ev.new = "on"
    THEN LET r == handle_appliance_turn_on(St, ev.entity_id, sensor_state)
         IN  IF r.done THEN async_check_and_balance(r.st) ELSE r.st
    ELSE IF ev.new = "off" /\ ev.old = "on"
    THEN async_check_and_balance(handle_appliance_turn_off(St, ev.entity_id))
    ELSE async_check_and_balance(St)

\* The oldest pending appliance event is handled.
ApplianceEvent(sensor_state) ==
    /\ Inside
    /\ events /= << >>
    /\ LET ev == Head(events)
           out == appliance_state_change(ev, sensor_state)
       IN  /\ Commit(out)
           /\ last' = Did("appliance_" \o ev.new, ev.entity_id,
                          calculate_sensor_power(sensor_state), out)
    /\ events' = Tail(events)
    /\ UNCHANGED << monitored_sensors, is_balancing_enabled, hass_states >>

(***************************************************************************)
(* Exceptions, and what a service call raises to the code that awaits it.  *)
(***************************************************************************)
\* exceptions.py: the base class of each exception class; the platform's
\* HomeAssistantError and the TimeoutError of asyncio.wait_for are
\* exceptions outside the integration's own classes.
BaseOf(cls) ==
    CASE cls \in {"PowerLoadBalancerError", "HomeAssistantError", "TimeoutError"}
             -> "Exception"
      [] cls = "ServiceTimeoutError" -> "ServiceCallError"
      [] cls = "CircuitBreakerOpenError" -> "NonRetryableError"
      [] cls = "RateLimitError" -> "RetryableError"
      [] OTHER -> "PowerLoadBalancerError"

\* isinstance(exc, cls) of an exception of class exc
RECURSIVE isinstance(_, _)
isinstance(exc, cls) ==
    \/ exc = cls
    \/ exc /= "Exception" /\ isinstance(BaseOf(exc), cls)

\* What the awaited asyncio.wait_for(hass.services.async_call(...)) raises
\* on an outcome of the platform call: nothing, the platform's error, or
\* the TimeoutError of wait_for.
platform_raises(outcome) ==
    CASE outcome = "ok" -> ""
      [] outcome = "error" -> "HomeAssistantError"
      [] OTHER -> "TimeoutError"

\* The inner try of safe_service_call: what leaves it when the await raised
\* exc.  Its one except clause turns a TimeoutError into a
\* ServiceTimeoutError.
inner_try_raises(exc) ==
    IF exc /= "" /\ isinstance(exc, "TimeoutError") THEN "ServiceTimeoutError"
    ELSE exc

\* safe_service_call: what it raises to its caller on an outcome of the
\* platform call, "" when it returns.  The inner try lies inside the outer
\* one, whose except clauses (HomeAssistantError, then Exception) both raise
\* a ServiceCallError from what they catch, the ServiceTimeoutError of the
\* inner try included.
safe_service_call_raises(outcome) ==
    LET exc == inner_try_raises(platform_raises(outcome))
    IN  IF exc = "" THEN ""
        ELSE IF isinstance(exc, "HomeAssistantError") THEN "ServiceCallError"
        ELSE IF isinstance(exc, "Exception") THEN "ServiceCallError"
        ELSE exc

\* The except clauses of async_turn_off_appliance_service: what it raises
\* when exc was raised in its try, "" when nothing was.  Each clause raises
\* an ApplianceControlError from what it catches.
turn_off_service_raises(exc) ==
    IF exc = "" THEN ""
    ELSE IF isinstance(exc, "Exception") THEN "ApplianceControlError"
    ELSE exc

\* A variant of turn_off_task without its try.
turn_off_task_reraises(exc) == exc

\* turn_off_task of _balance_down: what leaves the task when its await
\* raised exc.  Its except Exception clause logs and lets nothing out.
turn_off_task_raises(exc) ==
    IF exc /= "" /\ isinstance(exc, "Exception") THEN "" ELSE exc

(***************************************************************************)
(* The platform: appliance states, their events, and the service calls.    *)
(***************************************************************************)
StateChanged(a, old, new) == [entity_id |-> a, old |-> old, new |-> new]

\* A history record of a step that is no handler of the balancer.
Env(op, entity) ==
    [op |-> op, entity |-> entity, watts |-> Absent, evals |-> << >>,
     ledger_before |-> << >>]

\* The history record of a coroutine that has ended: what it did and the
\* exception that left it, "" when none did.
Ended(op, entity, raised) ==
    [op |-> op, entity |-> entity, watts |-> Absent, evals |-> << >>,
     ledger_before |-> << >>, raised |-> raised]

\* Something other than the balancer changes the state of appliance a.
ExternalChange(a, new) ==
    /\ Outside
    /\ hass_states[a] /= new
    /\ hass_states' = [hass_states EXCEPT ![a] = new]
    /\ events' = Append(events, StateChanged(a, hass_states[a], new))
    /\ last' = Env("external", a)
    /\ UNCHANGED << monitored_sensors, is_balancing_enabled,
                    estimated_total_power, current_sensor_power, balanced_off,
                    tasks >>

\* The outcomes of the awaited hass.services.async_call(turn_off): done,
\* raised, timed out with the appliance switched, timed out without.
CallOutcomes == {"ok", "error", "timeout_switched", "timeout"}

\* The appliance states and events after a turn-off call with this outcome.
PlatformTurnOff(a, outcome) ==
    IF outcome \in {"ok", "timeout_switched"} /\ hass_states[a] = "on"
    THEN /\ hass_states' = [hass_states EXCEPT ![a] = "off"]
         /\ events' = Append(events, StateChanged(a, "on", "off"))
    ELSE UNCHANGED << hass_states, events >>

\* turn_off_task of _balance_down starts: async_turn_off_appliance_service
\* up to its await.
StartPolicyOff(i) ==
    /\ Inside
    /\ tasks[i].kind = "policy_off" /\ tasks[i].pc = "created"
    /\ tasks' = IF turn_off_entry(tasks[i].app) = "call"
                THEN [tasks EXCEPT ![i].pc = "calling"]
                ELSE RemoveAt(tasks, i)
    /\ last' = Env("start_policy_off", tasks[i].app)
    /\ UNCHANGED << monitored_sensors, is_balancing_enabled,
                    estimated_total_power, current_sensor_power, balanced_off,
                    hass_states, events >>

\* The service call of turn_off_task ends: after it returned,
\* async_turn_off_appliance_service fires its logbook entry and logs; after
\* it raised, the except clause of the task swallows the
\* ApplianceControlError.  Either way the task ends there.
EndPolicyOff(i, outcome) ==
    /\ Inside
    /\ tasks[i].kind = "policy_off" /\ tasks[i].pc = "calling"
    /\ PlatformTurnOff(tasks[i].app, outcome)
    /\ tasks' = RemoveAt(tasks, i)
    /\ last' = Ended(IF safe_service_call_raises(outcome) = ""
                     THEN "policy_off_ok" ELSE "policy_off_failed",
                     tasks[i].app,
                     turn_off_task_raises(turn_off_service_raises(
                         safe_service_call_raises(outcome))))
    /\ UNCHANGED << monitored_sensors, is_balancing_enabled,
                    estimated_total_power, current_sensor_power, balanced_off >>

\* The service call of _turn_off_appliance is carried out: the platform
\* switches the appliance and the suspended handler becomes ready to run.
AdmitOffReturns(i) ==
    /\ Inside
    /\ tasks[i].kind = "admit_off" /\ tasks[i].pc = "calling"
    /\ PlatformTurnOff(tasks[i].app, "ok")
    /\ tasks' = [tasks EXCEPT ![i].pc = "returned"]
    /\ last' = Env("admit_off_returns", tasks[i].app)
    /\ UNCHANGED << monitored_sensors, is_balancing_enabled,
                    estimated_total_power, current_sensor_power, balanced_off >>

\* _turn_off_appliance runs on after its await: the appliance is recorded,
\* _handle_appliance_turn_on returns and the handler evaluates.
EndAdmitOffOk(i) ==
    /\ Inside
    /\ tasks[i].kind = "admit_off" /\ tasks[i].pc = "returned"
    /\ LET st == [St EXCEPT !.ledger = mark_balanced_off(@, tasks[i].app),
                            !.tasks = RemoveAt(@, i)]
           out == async_check_and_balance(st)
       IN  /\ Commit(out)
           /\ last' = Did("admit_off_ok", tasks[i].app, Absent, out)
    /\ UNCHANGED << monitored_sensors, is_balancing_enabled, hass_states,
                    events >>

\* The service call of _turn_off_appliance fails (RetryableError): the retry
\* wrapper sleeps before the next attempt, or raises after the last one.
EndAdmitOffFail(i, outcome) ==
    /\ Inside
    /\ tasks[i].kind = "admit_off" /\ tasks[i].pc = "calling"
    /\ outcome /= "ok"
    /\ PlatformTurnOff(tasks[i].app, outcome)
    /\ tasks' = IF tasks[i].attempt = max_retries
                THEN RemoveAt(tasks, i)
                ELSE [tasks EXCEPT ![i].pc = "sleeping", ![i].attempt = @ + 1]
    /\ last' = Env("admit_off_fail", tasks[i].app)
    /\ UNCHANGED << monitored_sensors, is_balancing_enabled,
                    estimated_total_power, current_sensor_power, balanced_off >>

\* The backoff sleep ends and _turn_off_appliance runs again.
RetryAdmitOff(i) ==
    /\ Inside
    /\ tasks[i].kind = "admit_off" /\ tasks[i].pc = "sleeping"
    /\ LET entry == turn_off_entry(tasks[i].app)
           st == CASE entry = "call" -> [St EXCEPT !.tasks[i].pc = "calling"]
                   [] entry = "return" ->
                        async_check_and_balance([St EXCEPT !.tasks = RemoveAt(@, i)])
                   [] OTHER -> [St EXCEPT !.tasks = RemoveAt(@, i)]
       IN  /\ Commit(st)
           /\ last' = Did("admit_off_retry", tasks[i].app, Absent, st)
    /\ UNCHANGED << monitored_sensors, is_balancing_enabled, hass_states,
                    events >>

\* An empty dict.
EmptyDict == [k \in {} |-> 0]

\* ApplianceController.__init__ and CircuitBreaker.__init__: no timer, no
\* expected wattage, the breaker CLOSED with no failure counted.
Constructed ==
    /\ scheduled_auto_turn_ons = EmptyDict
    /\ expected_power_restoration = EmptyDict
    /\ breaker_state = "CLOSED"
    /\ failure_count = 0
    /\ last_failure_time = Absent
    /\ now = 0

(***************************************************************************)
(* The specification of the control loop.                                  *)
(***************************************************************************)
\* The state after __init__ and async_setup: balancing is enabled, the
\* ledger is empty, the estimate is what the main meter reported (0.0 when
\* it had no usable state), each circuit sensor is tracked when it had a
\* usable state (a circuit at its full draw here; one that reports less
\* does so in an event), and the appliances are on or off.
Init ==
    /\ monitored_sensors \in Configs
    /\ is_balancing_enabled = TRUE
    /\ estimated_total_power \in 0..MaxMain
    /\ current_sensor_power \in [Sensors -> {Absent, MaxWatt}]
    /\ balanced_off = << >>
    /\ hass_states \in [Appliances -> {"on", "off"}]
    /\ tasks = << >>
    /\ events = << >>
    /\ last = Env("init", "")
    /\ events_left = MaxSteps
    /\ Constructed

Next ==
    \/ \E r \in MainReports : MainSensorEvent(r)
    \/ \E s \in Sensors, r \in SensorReports : CircuitSensorEvent(s, r)
    \/ enable_balancing
    \/ disable_balancing
    \/ \E a \in Appliances, new \in ApplianceStates : ExternalChange(a, new)
    \/ \E r \in SensorReports : ApplianceEvent(r)
    \/ \E i \in DOMAIN tasks : StartPolicyOff(i)
    \/ \E i \in DOMAIN tasks, o \in CallOutcomes : EndPolicyOff(i, o)
    \/ \E i \in DOMAIN tasks : AdmitOffReturns(i)
    \/ \E i \in DOMAIN tasks : EndAdmitOffOk(i)
    \/ \E i \in DOMAIN tasks, o \in CallOutcomes : EndAdmitOffFail(i, o)
    \/ \E i \in DOMAIN tasks : RetryAdmitOff(i)

Spec == Init /\ [][Next]_vars

\* The state after __init__ and async_setup in a quiet house: the main meter
\* reported exactly the budget, no circuit sensor had a usable state, and
\* every appliance is off.  From this one start per configuration a run may
\* see one event more than from the starts of Init.
InitQuiet ==
    /\ monitored_sensors \in Configs
    /\ is_balancing_enabled = TRUE
    /\ estimated_total_power = power_budget
    /\ current_sensor_power = [s \in Sensors |-> Absent]
    /\ balanced_off = << >>
    /\ hass_states = [a \in Appliances |-> "off"]
    /\ tasks = << >>
    /\ events = << >>
    /\ last = Env("init", "")
    /\ events_left = MaxSteps + 1
    /\ Constructed

SpecQuiet == InitQuiet /\ [][Next]_vars

(***************************************************************************)
(* Properties of the control loop.                                         *)
(***************************************************************************)
\* The optimistic reductions of the evaluation runs logged in evals.
RECURSIVE TotalCut(_)
TotalCut(evals) ==
    IF evals = << >> THEN 0 ELSE Head(evals).cut + TotalCut(Tail(evals))

\* The appliances the evaluation runs logged in evals asked to turn off.
RECURSIVE AllShed(_)
AllShed(evals) ==
    IF evals = << >> THEN << >> ELSE Head(evals).shed \o AllShed(Tail(evals))

\* This step leaves the estimate at base, or it is an over-budget evaluation
\* with balancing enabled that sheds one appliance that is on and takes that
\* appliance's tracked wattage from base.
EstimateAfterEvaluation(base) ==
    \/ estimated_total_power' = base /\ tasks' = tasks
    \/ /\ base > power_budget
       /\ is_balancing_enabled
       /\ \E a \in Appliances :
            /\ hass_states[a] = "on"
            /\ tasks' = Append(tasks, PolicyOffTask(a))
            /\ estimated_total_power' =
                   base - get_sensor_power_for_appliance(current_sensor_power', a)

\* The step handled a valid reading of this sensor: the handler logs the
\* wattage it took from the reading.
HandledReading(entity_id) ==
    last'.op = "reading" /\ last'.entity = entity_id

\* C1 as stated: a valid reading of the main meter leaves the estimate equal
\* to the reading, and a valid reading of a circuit sensor records the
\* circuit's wattage and leaves the estimate unchanged.
C1_AsStated ==
    [][/\ HandledReading(main_power_sensor_entity_id)
             => estimated_total_power' = last'.watts
       /\ \A s \in Sensors :
             HandledReading(s)
                 => /\ current_sensor_power'[s] = last'.watts
                    /\ estimated_total_power' = estimated_total_power]_vars

\* C1 (amended): no double counting.  A valid reading of the main meter sets
\* the estimate to the reading and a valid reading of a circuit sensor only
\* records the circuit's wattage, never adding it to the estimate; the
\* evaluation that the handler then runs may, when the estimate is over the
\* budget and balancing is enabled, take the tracked wattage of the one
\* appliance it sheds off the estimate.  Otherwise the estimate is the
\* reading (main meter) or unchanged (circuit sensor).
C1_NoDoubleCounting ==
    [][/\ HandledReading(main_power_sensor_entity_id)
             => /\ current_sensor_power' = current_sensor_power
                /\ EstimateAfterEvaluation(last'.watts)
       /\ \A s \in Sensors :
             HandledReading(s)
                 => /\ current_sensor_power' =
                          [current_sensor_power EXCEPT ![s] = last'.watts]
                    /\ EstimateAfterEvaluation(estimated_total_power)]_vars

\* A circuit sensor has reported a positive wattage and the handler's
\* evaluation has shed an appliance, taking its wattage off the estimate.
C1_Witness ==
    /\ last.op = "reading"
    /\ last.entity \in Sensors
    /\ last.watts > 0
    /\ current_sensor_power[last.entity] = last.watts
    /\ TotalCut(last.evals) > 0
    /\ estimated_total_power >= power_budget

\* An entry of the configuration the shedding policy may select in this
\* state: its appliance is on, is not in the ledger and is not last-resort.
MayBeShed(cfg) ==
    /\ hass_states[cfg.appliance] = "on"
    /\ cfg.appliance \notin Range(balanced_off)
    /\ ~IsLastResort(cfg)

\* The entries of the configuration that name appliance a.
EntriesOf(a) == {cfg \in Range(monitored_sensors) : cfg.appliance = a}

\* C2: priority ordering.  Every appliance an over-budget evaluation selects
\* belongs to an entry that may be shed (on, not in the ledger, not
\* last-resort) and whose importance is the smallest among the entries that
\* may be shed; a last-resort appliance is never selected.  (A handler changes
\* neither the appliance states nor, after its evaluation, the ledger, so the
\* state after the handler shows what the evaluation saw.)
C2_PriorityOrdering ==
    \A i \in DOMAIN last.evals :
        \A k \in DOMAIN last.evals[i].shed :
            \E cfg \in EntriesOf(last.evals[i].shed[k]) :
                /\ MayBeShed(cfg)
                /\ \A other \in Range(monitored_sensors) :
                       MayBeShed(other) => Importance(cfg) <= Importance(other)

\* An evaluation has shed the appliance of the less important entry although
\* the configuration lists the more important one first, both being on.
C2_Witness ==
    /\ Importance(monitored_sensors[1]) > Importance(monitored_sensors[2])
    /\ \A cfg \in Range(monitored_sensors) : MayBeShed(cfg)
    /\ last.op = "reading"
    /\ AllShed(last.evals) = << monitored_sensors[2].appliance >>

\* The turn-off tasks of the shedding policy among ts.
PolicyTasks(ts) == {i \in DOMAIN ts : ts[i].kind = "policy_off"}

\* C3: single action per evaluation.  One run of the evaluation asks for at
\* most one turn-off: a step adds no more turn-off tasks of the shedding
\* policy than it ran evaluations, and no evaluation run logs more than one
\* appliance.
C3_SingleAction ==
    [][/\ \A i \in DOMAIN last'.evals : Len(last'.evals[i].shed) <= 1
       /\ Cardinality(PolicyTasks(tasks')) <=
              Cardinality(PolicyTasks(tasks)) + Len(last'.evals)]_vars

\* A reading has been handled whose one evaluation shed one appliance while
\* the estimate is still over the budget and another entry may still be shed.
C3_Witness ==
    /\ last.op = "reading"
    /\ Len(last.evals) = 1
    /\ Len(last.evals[1].shed) = 1
    /\ estimated_total_power > power_budget
    /\ \E cfg \in Range(monitored_sensors) :
           MayBeShed(cfg) /\ cfg.appliance /= last.evals[1].shed[1]

EvaluatedAgain == async_check_and_balance(St)

\* C4: idempotence of evaluation.  In the state a handler leaves after its
\* evaluation (nothing has happened since, no task it created has started),
\* invoking the evaluation again asks for at most one more turn-off, and it
\* asks for none and changes nothing when the first run left the estimate
\* within the budget; it never touches the circuit wattages or the ledger.
\* The handler that itself runs the evaluation twice (an appliance observed
\* on) asks in the second run for at most one turn-off beyond the first.
C4_Idempotence ==
    /\ last.evals /= << >> =>
           /\ Len(EvaluatedAgain.tasks) <= Len(tasks) + 1
           /\ estimated_total_power <= power_budget =>
                  /\ EvaluatedAgain.tasks = tasks
                  /\ EvaluatedAgain.est = estimated_total_power
           /\ EvaluatedAgain.csp = current_sensor_power
           /\ EvaluatedAgain.ledger = balanced_off
    /\ Len(last.evals) = 2 =>
           Len(AllShed(last.evals)) <= Len(last.evals[1].shed) + 1

\* A handler's evaluation has shed an appliance and its reduction has
\* brought the estimate within the budget; the turn-off task has not
\* started, the appliance is still on, and a second evaluation asks for
\* nothing.
C4_Witness ==
    /\ Len(last.evals) = 1
    /\ Len(last.evals[1].shed) = 1
    /\ last.evals[1].cut > 0
    /\ hass_states[last.evals[1].shed[1]] = "on"
    /\ \E i \in DOMAIN tasks :
           tasks[i] = PolicyOffTask(last.evals[1].shed[1])
    /\ estimated_total_power <= power_budget
    /\ EvaluatedAgain.tasks = tasks

EvaluatedTotal ==
    IF HandledReading(main_power_sensor_entity_id) THEN last'.watts
    ELSE IF last'.op = "appliance_off" /\ Head(events).old = "on"
         THEN handle_appliance_turn_off(St, last'.entity).est
    ELSE IF last'.op = "appliance_on" /\ estimated_total_power + last'.watts <= power_budget
         THEN estimated_total_power + last'.watts
    ELSE estimated_total_power

\* C13 (optimistic reduction): a step whose evaluation selects an appliance
\* had an estimate over the budget to evaluate, and leaves the estimate
\* reduced by exactly the tracked wattage w of the appliance's circuit when
\* w > 0 (and as it was when no wattage is tracked), with the turn-off task
\* of the appliance created but not started and the appliance still on.
C13_OptimisticReduction ==
    [][\A a \in Appliances :
          AllShed(last'.evals) = << a >> =>
              LET w == get_sensor_power_for_appliance(current_sensor_power', a)
              IN  /\ EvaluatedTotal > power_budget
                  /\ estimated_total_power' =
                         EvaluatedTotal - (IF w > 0 THEN w ELSE 0)
                  /\ tasks' /= << >>
                  /\ tasks'[Len(tasks')] = PolicyOffTask(a)
                  /\ hass_states'[a] = "on"]_vars

\* C13 is met where the main meter reported more than the budget, the
\* evaluation selected an appliance whose circuit is tracked above zero, and
\* the estimate is the reading less that wattage while the turn-off task
\* has not started.
C13_Witness ==
    /\ last.op = "reading" /\ last.entity = main_power_sensor_entity_id
    /\ last.watts > power_budget
    /\ Len(AllShed(last.evals)) = 1
    /\ LET a == AllShed(last.evals)[1]
           w == get_sensor_power_for_appliance(current_sensor_power, a)
       IN  /\ w > 0
           /\ estimated_total_power = last.watts - w
           /\ tasks = << PolicyOffTask(a) >>
           /\ hass_states[a] = "on"

\* C14 (evaluation dispatch): the handler of an accepted power reading runs,
\* balancing being enabled, one evaluation, which invokes the shedding
\* policy, and nothing else, when the total it finds is over the budget, and
\* the restoration policy, and nothing else, when it is not.  (The total the
\* evaluation found is the estimate with the optimistic reduction of the
\* evaluation put back.)
C14_EvaluationDispatch ==
    (last.op = "reading" /\ is_balancing_enabled) =>
        /\ Len(last.evals) = 1
        /\ PoliciesInvoked(last.evals[1]) =
               IF estimated_total_power + TotalCut(last.evals) > power_budget
               THEN {"balance_down"}
               ELSE {"balance_up"}

\* The tasks among ts in which the handler of an appliance observed on
\* awaits its turn-off.
AdmitTasks(ts) == {i \in DOMAIN ts : ts[i].kind = "admit_off"}

\* C15 (external turn-on admission): the handler of an event that shows an
\* appliance on takes p, the wattage the appliance's circuit sensor reports
\* at that time.  When total + p > budget it requests the turn-off of the
\* appliance in the same step, awaiting the service call when the appliance
\* is still on (the request ends without a call when it is on no longer),
\* and neither raises the estimate nor records p; when total + p <= budget
\* it adds p to the estimate, records p for the circuit, and requests no
\* turn-off of any appliance.
C15_TurnOnAdmission ==
    [][last'.op = "appliance_on" =>
          LET a == last'.entity
              watts == last'.watts
          IN  IF estimated_total_power + watts > power_budget
              THEN /\ estimated_total_power' =
                          estimated_total_power - TotalCut(last'.evals)
                   /\ current_sensor_power' = current_sensor_power
                   /\ IF hass_states[a] = "on"
                      THEN /\ tasks' = Append(tasks, AdmitOffTask(a, "calling", 0))
                           /\ estimated_total_power' = estimated_total_power
                      ELSE AdmitTasks(tasks') = AdmitTasks(tasks)
              ELSE /\ estimated_total_power' = estimated_total_power + watts
                   /\ current_sensor_power' =
                          [current_sensor_power EXCEPT
                             ![get_sensor_for_appliance(a)] = watts]
                   /\ tasks' = tasks]_vars

\* C15 is met where an appliance went on while the estimate was within the
\* budget, its circuit reporting more than the headroom: the handler awaits
\* the turn-off of the appliance and the estimate is as it was.
C15_Witness ==
    /\ last.op = "appliance_on"
    /\ last.watts > 0
    /\ estimated_total_power <= power_budget
    /\ estimated_total_power + last.watts > power_budget
    /\ tasks = << AdmitOffTask(last.entity, "calling", 0) >>
    /\ hass_states[last.entity] = "on"
    /\ current_sensor_power[get_sensor_for_appliance(last.entity)] /= last.watts

\* C16 (external turn-off accounting): the handler of an event that shows an
\* appliance going from on to off, the appliance not being in the ledger,
\* takes the tracked wattage of the appliance's circuit (0 when none is
\* tracked) from the estimate, drops the circuit from the tracked ones, and
\* leaves the ledger as it is.  The estimate after the step is the estimate
\* before less that wattage, and less the optimistic reduction of the
\* evaluation that ends the handler when that evaluation sheds (C13).
C16_TurnOffAccounting ==
    [][(/\ last'.op = "appliance_off"
        /\ Head(events).old = "on"
        /\ last'.entity \notin Range(balanced_off)) =>
          LET a == last'.entity
              w == get_sensor_power_for_appliance(current_sensor_power, a)
          IN  /\ balanced_off' = balanced_off
              /\ handle_appliance_turn_off(St, a).est = estimated_total_power - w
              /\ handle_appliance_turn_off(St, a).ledger = balanced_off
              /\ estimated_total_power' =
                     estimated_total_power - w - TotalCut(last'.evals)
              /\ current_sensor_power' =
                     [current_sensor_power EXCEPT
                        ![get_sensor_for_appliance(a)] = Absent]]_vars

\* C16 is met where an appliance outside the ledger went off while the
\* estimate was 0 and its circuit tracked above 0: the estimate is below 0
\* by the circuit's wattage, the circuit is tracked no longer and the ledger
\* is empty as before.
C16_Witness ==
    /\ last.op = "appliance_off"
    /\ last.entity \notin Range(last.ledger_before)
    /\ estimated_total_power = 0 - MaxWatt
    /\ current_sensor_power[get_sensor_for_appliance(last.entity)] = Absent
    /\ hass_states[last.entity] = "off"
    /\ balanced_off = << >>

\* C12 (shed bookkeeping): once the turn-off that an over-budget evaluation
\* asked for has succeeded, the appliance is in the ledger and a restoration
\* timer that has not finished is armed for it.
C12_ShedBookkeeping ==
    last.op = "policy_off_ok" =>
        /\ last.entity \in Range(balanced_off)
        /\ last.entity \in DOMAIN scheduled_auto_turn_ons
        /\ scheduled_auto_turn_ons[last.entity] \in {"sleeping", "calling"}

(***************************************************************************)
(* Restoration: BalancingEngine.balance_up and the restoration timers of   *)
(* ApplianceController.  Nothing in the integration constructs these       *)
(* classes, so their methods are driven here by a caller that may invoke   *)
(* each of them at any time.  The callbacks of BalancingCallbacks read the *)
(* fields their names say: the estimate and the tracked wattages of the    *)
(* monitor, which the variables estimated_total_power and                  *)
(* current_sensor_power hold, and the ledger and the timer registry of the *)
(* controller.                                                             *)
(***************************************************************************)
\* d[k] = v
dict_set(d, k, v) == [x \in DOMAIN d \cup {k} |-> IF x = k THEN v ELSE d[x]]

\* d.pop(k, None)
dict_pop(d, k) == [x \in DOMAIN d \ {k} |-> d[x]]

\* d.get(k, default)
dict_get(d, k, default) == IF k \in DOMAIN d THEN d[k] ELSE default

\* The wattages a caller may pass as expected_power.
ExpectedWatts == -1..MaxWatt

\* ApplianceController.get_expected_power_restoration
get_expected_power_restoration(expected, a) == dict_get(expected, a, 0)

\* The expected wattage balance_up works with: the recorded one, or the
\* tracked wattage of the appliance's circuit when none above 0 is recorded.
expected_power_of(a) ==
    LET expected_power ==
            get_expected_power_restoration(expected_power_restoration, a)
    IN  IF expected_power <= 0
        THEN get_sensor_power_for_appliance(current_sensor_power, a)
        ELSE expected_power

\* A variant of the test of balance_up that looks at the wattage alone.
gate_without_headroom(available_budget, expected_power) == expected_power > 0

\* if available_budget >= expected_power > 0
restoration_gate(available_budget, expected_power) ==
    available_budget >= expected_power /\ expected_power > 0

\* A variant of the loop of balance_up that goes through the ledger from
\* its newest entry.
RECURSIVE balance_up_newest_first(_)
balance_up_newest_first(ledger) ==
    IF ledger = << >> THEN ""
    ELSE IF hass_states[ledger[Len(ledger)]] /= "off"
         THEN balance_up_newest_first(SubSeq(ledger, 1, Len(ledger) - 1))
    ELSE IF restoration_gate(power_budget - estimated_total_power,
                             expected_power_of(ledger[Len(ledger)]))
         THEN ledger[Len(ledger)]
    ELSE balance_up_newest_first(SubSeq(ledger, 1, Len(ledger) - 1))

\* The loop of balance_up over the ledger: the appliance it restores, ""
\* when it restores none.
RECURSIVE balance_up_loop(_)
balance_up_loop(ledger) ==
    IF ledger = << >> THEN ""
    ELSE IF hass_states[Head(ledger)] /= "off"
         THEN balance_up_loop(Tail(ledger))
    ELSE IF restoration_gate(power_budget - estimated_total_power,
                             expected_power_of(Head(ledger)))
         THEN Head(ledger)
    ELSE balance_up_loop(Tail(ledger))

\* restore_task of balance_up, not yet run.
RestoreTask(a) == [kind |-> "restore", app |-> a, pc |-> "created"]

\* The history record of a decision about restoring: the operation, the
\* appliance, and whether a turn-on was issued for it.
Decided(op, entity, issued) == [op |-> op, entity |-> entity, issued |-> issued]

\* What cancelling a timer task leaves of its service call: a task that
\* awaits the call may be cancelled before or after the platform switched.
CancelTimer(a) ==
    IF dict_get(scheduled_auto_turn_ons, a, "") = "calling"
    THEN \/ UNCHANGED hass_states
         \/ hass_states' = [hass_states EXCEPT ![a] = "on"]
    ELSE UNCHANGED hass_states

\* ApplianceController.cancel_scheduled_turn_on
cancel_scheduled_turn_on(a) ==
    IF a \in DOMAIN scheduled_auto_turn_ons
    THEN /\ CancelTimer(a)
         /\ scheduled_auto_turn_ons' = dict_pop(scheduled_auto_turn_ons, a)
         /\ expected_power_restoration' = dict_pop(expected_power_restoration, a)
    ELSE UNCHANGED << hass_states, timer_vars >>

\* BalancingEngine.balance_up(callbacks, get_balanced_off_appliances(), ...)
BalanceUp ==
    /\ Spend
    /\ LET a == balance_up_loop(balanced_off)
       IN  IF a = ""
           THEN /\ UNCHANGED << hass_states, timer_vars, tasks >>
                /\ last' = Decided("balance_up", "", FALSE)
           ELSE /\ cancel_scheduled_turn_on(a)
                /\ tasks' = Append(tasks, RestoreTask(a))
                /\ last' = Decided("balance_up", a, TRUE)
    /\ UNCHANGED << monitored_sensors, is_balancing_enabled,
                    estimated_total_power, current_sensor_power, balanced_off,
                    events, breaker_vars >>

\* The registry holds a timer task of the appliance that has not finished.
HasLiveTimer(a) ==
    dict_get(scheduled_auto_turn_ons, a, "done") \in {"sleeping", "calling"}

\* A timer task that goes on although the registry refers to it no longer.
TimerTask(a, pc) == [kind |-> "auto_turn_on", app |-> a, pc |-> pc]

\* A variant of the replacement that pops the existing timer and leaves it
\* to run on.
pop_existing_timer(a) ==
    IF HasLiveTimer(a)
    THEN Append(tasks, TimerTask(a, scheduled_auto_turn_ons[a]))
    ELSE tasks

\* schedule_auto_turn_on on an appliance that has a timer: the tasks of the
\* event loop after existing_task.cancel() and the pop.  The cancelled task
\* ends on the CancelledError, which none of its except clauses catches.
cancel_existing_timer(a) == tasks

\* ApplianceController.schedule_auto_turn_on(entity_id, expected_power, ...):
\* a timer of the appliance is cancelled and replaced.
ScheduleAutoTurnOn(a, expected_power) ==
    /\ Spend
    /\ CancelTimer(a)
    /\ tasks' = cancel_existing_timer(a)
    /\ scheduled_auto_turn_ons' = dict_set(scheduled_auto_turn_ons, a, "sleeping")
    /\ expected_power_restoration' =
           dict_set(expected_power_restoration, a, expected_power)
    /\ last' = Decided(IF HasLiveTimer(a) THEN "reschedule" ELSE "schedule",
                       a, FALSE)
    /\ UNCHANGED << monitored_sensors, is_balancing_enabled,
                    estimated_total_power, current_sensor_power, balanced_off,
                    events, breaker_vars >>

\* A variant of the checks that does not look at the appliance.
auto_turn_on_check_unseen(a) ==
    /\ is_balancing_enabled
    /\ ~ (power_budget - estimated_total_power
            < dict_get(expected_power_restoration, a, 0))

\* The checks of auto_turn_on_task after its sleep: TRUE when it goes on to
\* turn the appliance on.
auto_turn_on_check(a) ==
    /\ is_balancing_enabled
    /\ hass_states[a] = "off"
    /\ ~ (power_budget - estimated_total_power
            < dict_get(expected_power_restoration, a, 0))

\* asyncio.sleep(AUTO_TURN_ON_DELAY_SECONDS) of auto_turn_on_task ends: the
\* task returns, or awaits the service call of turn_on_appliance_service.
AutoTurnOnExpires(a) ==
    /\ a \in DOMAIN scheduled_auto_turn_ons
    /\ scheduled_auto_turn_ons[a] = "sleeping"
    /\ scheduled_auto_turn_ons' =
           [scheduled_auto_turn_ons EXCEPT
              ![a] = IF auto_turn_on_check(a) THEN "calling" ELSE "done"]
    /\ last' = Decided("auto_turn_on", a, auto_turn_on_check(a))
    /\ UNCHANGED << monitored_sensors, is_balancing_enabled,
                    estimated_total_power, current_sensor_power, balanced_off,
                    hass_states, tasks, events, events_left,
                    expected_power_restoration, breaker_vars >>

\* The appliance states after a turn-on call with this outcome.
PlatformTurnOn(a, outcome) ==
    IF outcome \in {"ok", "timeout_switched"} /\ hass_states[a] = "off"
    THEN hass_states' = [hass_states EXCEPT ![a] = "on"]
    ELSE UNCHANGED hass_states

\* The service call of auto_turn_on_task ends: the task drops the expected
\* wattage, after the call returned and in its except clause alike, and
\* ends.  Neither the task nor turn_on_appliance_service touches the ledger.
AutoTurnOnReturns(a, outcome) ==
    /\ a \in DOMAIN scheduled_auto_turn_ons
    /\ scheduled_auto_turn_ons[a] = "calling"
    /\ PlatformTurnOn(a, outcome)
    /\ scheduled_auto_turn_ons' = [scheduled_auto_turn_ons EXCEPT ![a] = "done"]
    /\ expected_power_restoration' = dict_pop(expected_power_restoration, a)
    /\ last' = Decided(IF outcome = "ok" THEN "auto_turn_on_ok"
                       ELSE "auto_turn_on_failed", a, FALSE)
    /\ UNCHANGED << monitored_sensors, is_balancing_enabled,
                    estimated_total_power, current_sensor_power, balanced_off,
                    tasks, events, events_left, breaker_vars >>

\* restore_task starts.  The caller of balance_up passed the controller's
\* turn_on_appliance_service as restore_appliance_callback: the task runs
\* it up to its await, and ends there when the appliance is no longer 'off'.
StartRestore(i) ==
    /\ tasks[i].kind = "restore" /\ tasks[i].pc = "created"
    /\ tasks' = IF hass_states[tasks[i].app] = "off"
                THEN [tasks EXCEPT ![i].pc = "calling"]
                ELSE RemoveAt(tasks, i)
    /\ last' = Decided("start_restore", tasks[i].app, FALSE)
    /\ UNCHANGED << monitored_sensors, is_balancing_enabled,
                    estimated_total_power, current_sensor_power, balanced_off,
                    hass_states, events, events_left, timer_vars,
                    breaker_vars >>

\* The service call of restore_task ends; the task logs a failure and ends.
\* Neither the task nor turn_on_appliance_service touches the ledger or the
\* timer registry.
EndRestore(i, outcome) ==
    /\ tasks[i].kind = "restore" /\ tasks[i].pc = "calling"
    /\ PlatformTurnOn(tasks[i].app, outcome)
    /\ tasks' = RemoveAt(tasks, i)
    /\ last' = Decided(IF outcome = "ok" THEN "restore_ok" ELSE "restore_failed",
                       tasks[i].app, FALSE)
    /\ UNCHANGED << monitored_sensors, is_balancing_enabled,
                    estimated_total_power, current_sensor_power, balanced_off,
                    events, events_left, timer_vars, breaker_vars >>

\* The platform writes a new state of an appliance.
StateWritten(a, new) ==
    /\ Spend
    /\ hass_states[a] /= new
    /\ hass_states' = [hass_states EXCEPT ![a] = new]
    /\ last' = Decided("state_written", a, FALSE)
    /\ UNCHANGED << monitored_sensors, is_balancing_enabled,
                    estimated_total_power, current_sensor_power, balanced_off,
                    tasks, events, timer_vars, breaker_vars >>

\* The ledgers the controller can hold: the appliances it turned off, in
\* the order it did.
Ledgers ==
    {<< >>} \cup {<<a>> : a \in Appliances}
        \cup {<<a, b>> : a, b \in Appliances}

\* The components after construction, initialize_power_tracking and the
\* turn-offs that filled the ledger: the monitor holds what the sensors
\* reported, no timer is armed and no expected wattage recorded.
InitRestore ==
    /\ monitored_sensors = << SensorConfigDefaults("sensor.s1", "switch.a1"),
                             SensorConfigDefaults("sensor.s2", "switch.a2") >>
    /\ is_balancing_enabled \in BOOLEAN
    /\ estimated_total_power \in 0..MaxMain
    /\ current_sensor_power \in [Sensors -> {Absent} \cup 0..MaxWatt]
    /\ balanced_off \in {l \in Ledgers : Len(l) = Cardinality(Range(l))}
    /\ hass_states \in [Appliances -> {"on", "off"}]
    /\ tasks = << >>
    /\ events = << >>
    /\ last = Decided("init", "", FALSE)
    /\ events_left = MaxSteps
    /\ Constructed

NextRestore ==
    \/ BalanceUp
    \/ \E a \in Appliances, e \in ExpectedWatts : ScheduleAutoTurnOn(a, e)
    \/ \E a \in Appliances : AutoTurnOnExpires(a)
    \/ \E a \in Appliances, o \in CallOutcomes : AutoTurnOnReturns(a, o)
    \/ \E i \in DOMAIN tasks : StartRestore(i)
    \/ \E i \in DOMAIN tasks, o \in CallOutcomes : EndRestore(i, o)
    \/ \E a \in Appliances, new \in ApplianceStates : StateWritten(a, new)

SpecRestore == InitRestore /\ [][NextRestore]_vars

(***************************************************************************)
(* Properties of restoration.                                              *)
(***************************************************************************)
\* The expected restoration wattage of an appliance: the wattage recorded
\* for its restoration when that is above zero, else the last reading of
\* its circuit, 0 when there is none.
ExpectedRestoration(a) ==
    LET recorded == IF a \in DOMAIN expected_power_restoration
                    THEN expected_power_restoration[a] ELSE 0
        circuits == {cfg.entity_id : cfg \in EntriesOf(a)}
        reading == IF \E c \in circuits : current_sensor_power[c] /= Absent
                   THEN current_sensor_power[
                            CHOOSE c \in circuits : current_sensor_power[c] /= Absent]
                   ELSE 0
    IN  IF recorded > 0 THEN recorded ELSE reading

\* A shed appliance, still off, that fits the headroom.
MayRestore(a) ==
    /\ a \in Range(balanced_off)
    /\ hass_states[a] = "off"
    /\ power_budget - estimated_total_power >= ExpectedRestoration(a)
    /\ ExpectedRestoration(a) > 0

\* C5 (restoration gating): a run of the restoration policy issues a restore
\* only for a shed appliance with budget - total >= expected > 0, total
\* being the estimate and expected the appliance's expected restoration
\* wattage at that time; it issues one restore when some shed appliance
\* that is off meets the test, and none otherwise.
C5_RestorationGating ==
    [][ last'.op = "balance_up" =>
          /\ last'.issued =>
               /\ MayRestore(last'.entity)
               /\ tasks' = Append(tasks, RestoreTask(last'.entity))
          /\ ~ last'.issued => tasks' = tasks
          /\ last'.issued <=> \E a \in Appliances : MayRestore(a)
      ]_vars

\* C5 is met where the policy has just issued a restore with the estimate
\* above zero and a restore task of the appliance waiting.
C5_Witness ==
    /\ last.op = "balance_up" /\ last.issued
    /\ estimated_total_power > 0
    /\ power_budget - estimated_total_power >= ExpectedRestoration(last.entity)
    /\ \E i \in DOMAIN tasks : tasks[i] = RestoreTask(last.entity)

retry_on == {"RetryableError"}

\* A variant of the wrapper that retries after any exception.
retry_after_any(exc, attempt) ==
    IF attempt = max_retries THEN "raise" ELSE "sleep"

\* The except clause of the wrapper of retry_with_backoff, after attempt
\* number attempt (from 0) raised exc: "raise" or "sleep".
retry_after(exc, attempt) ==
    IF ~ \E cls \in retry_on : isinstance(exc, cls) THEN "raise"
    ELSE IF attempt = max_retries THEN "raise"
    ELSE "sleep"

\* backoff_factor=0.5 of the decorator of turn_off_appliance, in
\* milliseconds.
backoff_factor == 500

\* max_delay of retry_with_backoff, 60.0 by default, in milliseconds.
max_delay == 60000

\* Python's min of two numbers.
min(a, b) == IF a <= b THEN a ELSE b

\* A variant of the delay that does not grow with the attempt.
retry_delay_constant(factor, cap, attempt) == min(factor, cap)

\* delay = min(backoff_factor * (2**attempt), max_delay): what the wrapper
\* sleeps after attempt number attempt (from 0) failed.
retry_delay(factor, cap, attempt) == min(factor * (2 ^ attempt), cap)

\* Entity ids validate_entity_id rejects: empty, or without a dot.
Malformed == {"", "switch_a1"}

\* The entity ids a caller may pass: the appliances, one that has no
\* state, and the malformed ones.
EntityIds == Appliances \cup {"switch.gone"} \cup Malformed

\* hass.states.get(entity_id).state, "none" when there is no state.
StateOf(entity_id) ==
    IF entity_id \in DOMAIN hass_states THEN hass_states[entity_id] ELSE "none"

\* turn_off_appliance up to its await: the exception raised in the try, or
\* "return" (the appliance is not 'on'), or "call" (the service call is
\* awaited).
controller_turn_off_entry(entity_id) ==
    IF entity_id \in Malformed THEN "ValidationError"
    ELSE IF StateOf(entity_id) = "none" THEN "EntityNotFoundError"
    ELSE IF StateOf(entity_id) \in {"unknown", "unavailable"}
         THEN "EntityUnavailableError"
    ELSE IF StateOf(entity_id) /= "on" THEN "return"
    ELSE "call"

\* The except clauses of turn_off_appliance: the exception the attempt
\* raises when exc was raised in its try.
turn_off_raises(exc) ==
    IF exc \in {"EntityNotFoundError", "EntityUnavailableError"}
    THEN "ApplianceControlError"
    ELSE IF isinstance(exc, "ServiceCallError") THEN "RetryableError"
    ELSE "ApplianceControlError"

\* A call of the decorated turn_off_appliance that has not ended: its loop
\* variable attempt, what went wrong in the attempts so far, and the delay
\* it is sleeping (0 when it is not in asyncio.sleep).
TurnOffTask(entity_id, pc, attempt, outcomes) ==
    [kind |-> "turn_off", app |-> entity_id, pc |-> pc, attempt |-> attempt,
     outcomes |-> outcomes,
     delay |-> IF pc = "sleeping"
               THEN retry_delay(backoff_factor, max_delay, attempt)
               ELSE 0]

\* The history record of a call of turn_off_appliance that ended: how each
\* attempt ended, and what the caller got.
Attempted(entity_id, outcomes, result) ==
    [op |-> "turn_off_done", entity |-> entity_id, outcomes |-> outcomes,
     result |-> result]

\* The history record of an attempt whose service call ended: what the
\* call of turn_off_appliance has done so far (rec), how the platform call
\* ended, and what safe_service_call raised to turn_off_appliance ("" when
\* it returned).
Called(rec, platform, raised) ==
    [op |-> IF rec.result = "sleep" THEN "turn_off_sleep" ELSE rec.op,
     entity |-> rec.entity, outcomes |-> rec.outcomes, result |-> rec.result,
     platform |-> platform, raised |-> raised]

\* One attempt of turn_off_appliance from its start, as attempt number
\* attempt of a call (task i when the call has a task already, 0 when not).
RunAttempt(i, entity_id, attempt, outcomes) ==
    LET entry == controller_turn_off_entry(entity_id)
        rest == IF i = 0 THEN tasks ELSE RemoveAt(tasks, i)
    IN  CASE entry = "call" ->
               /\ tasks' = IF i = 0
                           THEN Append(tasks, TurnOffTask(entity_id, "calling",
                                                          attempt, outcomes))
                           ELSE [tasks EXCEPT
                                   ![i] = TurnOffTask(entity_id, "calling",
                                                      attempt, outcomes)]
               /\ last' = [op |-> "turn_off_attempt", entity |-> entity_id]
          [] entry = "return" ->
               /\ tasks' = rest
               /\ last' = Attempted(entity_id, Append(outcomes, "return"),
                                    "return")
          [] OTHER ->
               \* the attempt raises turn_off_raises(entry), and the wrapper
               \* re-raises it or sleeps
               IF retry_after(turn_off_raises(entry), attempt) = "raise"
               THEN /\ tasks' = rest
                    /\ last' = Attempted(entity_id, Append(outcomes, entry),
                                         turn_off_raises(entry))
               ELSE /\ tasks' =
                         IF i = 0
                         THEN Append(tasks,
                                     TurnOffTask(entity_id, "sleeping", attempt,
                                                 Append(outcomes, entry)))
                         ELSE [tasks EXCEPT
                                 ![i] = TurnOffTask(entity_id, "sleeping",
                                                    attempt,
                                                    Append(outcomes, entry))]
                    /\ last' = [op |-> "turn_off_sleep", entity |-> entity_id]

\* A caller awaits ApplianceController.turn_off_appliance(entity_id).
TurnOffAppliance(entity_id) ==
    /\ Spend
    /\ RunAttempt(0, entity_id, 0, << >>)
    /\ UNCHANGED << monitored_sensors, is_balancing_enabled,
                    estimated_total_power, current_sensor_power, balanced_off,
                    hass_states, events, timer_vars, breaker_vars >>

\* The service call of an attempt ends.  After "ok" the appliance is marked
\* and the call returns; else the attempt raises RetryableError and the
\* wrapper sleeps or re-raises.
TurnOffReturns(i, outcome) ==
    /\ tasks[i].kind = "turn_off" /\ tasks[i].pc = "calling"
    /\ hass_states' = IF outcome \in {"ok", "timeout_switched"}
                         /\ hass_states[tasks[i].app] = "on"
                      THEN [hass_states EXCEPT ![tasks[i].app] = "off"]
                      ELSE hass_states
    /\ LET exc == safe_service_call_raises(outcome)
           outcomes == Append(tasks[i].outcomes, IF exc = "" THEN "ok" ELSE exc)
       IN  IF exc = ""
           THEN /\ balanced_off' = mark_balanced_off(balanced_off, tasks[i].app)
                /\ tasks' = RemoveAt(tasks, i)
                /\ last' = Called(Attempted(tasks[i].app, outcomes, "ok"),
                                  outcome, exc)
           ELSE /\ UNCHANGED balanced_off
                /\ IF retry_after(turn_off_raises(exc), tasks[i].attempt) = "raise"
                   THEN /\ tasks' = RemoveAt(tasks, i)
                        /\ last' = Called(Attempted(tasks[i].app, outcomes,
                                                    turn_off_raises(exc)),
                                          outcome, exc)
                   ELSE /\ tasks' = [tasks EXCEPT
                                         ![i] = TurnOffTask(tasks[i].app,
                                                            "sleeping",
                                                            tasks[i].attempt,
                                                            outcomes)]
                        /\ last' = Called(Attempted(tasks[i].app, outcomes, "sleep"),
                                          outcome, exc)
    /\ UNCHANGED << monitored_sensors, is_balancing_enabled,
                    estimated_total_power, current_sensor_power, events,
                    events_left, timer_vars, breaker_vars >>

\* asyncio.sleep(delay) of the wrapper ends: the next attempt runs.
RetryTurnOff(i) ==
    /\ tasks[i].kind = "turn_off" /\ tasks[i].pc = "sleeping"
    /\ RunAttempt(i, tasks[i].app, tasks[i].attempt + 1, tasks[i].outcomes)
    /\ UNCHANGED << monitored_sensors, is_balancing_enabled,
                    estimated_total_power, current_sensor_power, balanced_off,
                    hass_states, events, events_left, timer_vars,
                    breaker_vars >>

\* The controller after construction, with the appliances in any state.
InitRetry ==
    /\ monitored_sensors = << SensorConfigDefaults("sensor.s1", "switch.a1"),
                             SensorConfigDefaults("sensor.s2", "switch.a2") >>
    /\ is_balancing_enabled = TRUE
    /\ estimated_total_power = 0
    /\ current_sensor_power = [s \in Sensors |-> Absent]
    /\ balanced_off = << >>
    /\ hass_states \in [Appliances -> ApplianceStates]
    /\ tasks = << >>
    /\ events = << >>
    /\ last = [op |-> "init", entity |-> ""]
    /\ events_left = MaxSteps + 1
    /\ Constructed

NextRetry ==
    \/ \E id \in EntityIds : TurnOffAppliance(id)
    \/ \E i \in DOMAIN tasks, o \in CallOutcomes : TurnOffReturns(i, o)
    \/ \E i \in DOMAIN tasks : RetryTurnOff(i)
    \/ \E a \in Appliances, new \in ApplianceStates : StateWritten(a, new)

SpecRetry == InitRetry /\ [][NextRetry]_vars

(***************************************************************************)
(* Properties of retry.                                                    *)
(***************************************************************************)
\* How an attempt can end: well, by a retryable failure (the service call
\* failed or timed out), or by a failure that is not retryable.
EndsWell == {"ok", "return"}

RetryableFailures == {"ServiceCallError", "ServiceTimeoutError"}

NonRetryableFailures ==
    {"ValidationError", "EntityNotFoundError", "EntityUnavailableError",
     "CircuitBreakerOpenError"}

\* C9 (retry classification): one logical turn-off runs the operation at
\* most max_retries + 1 times; every attempt but the last ended by a
\* retryable failure, so a success or a validation, entity-not-found,
\* entity-unavailable or circuit-open failure ends the attempts (after
\* exactly one attempt when it is the first), and a failure of the last
\* attempt propagates to the caller; a retryable failure ends the attempts
\* only when it is the failure of attempt max_retries + 1.
C9_RetryClassification ==
    /\ \A i \in DOMAIN tasks :
         /\ tasks[i].attempt <= max_retries
         /\ Len(tasks[i].outcomes) = tasks[i].attempt + (IF tasks[i].pc = "sleeping" THEN 1 ELSE 0)
         /\ \A k \in DOMAIN tasks[i].outcomes :
              tasks[i].outcomes[k] \in RetryableFailures
    /\ last.op = "turn_off_done" =>
         LET n == Len(last.outcomes) IN
         /\ n >= 1 /\ n <= max_retries + 1
         /\ \A k \in 1..(n - 1) : last.outcomes[k] \in RetryableFailures
         /\ last.outcomes[n] \in EndsWell => last.result = last.outcomes[n]
         /\ last.outcomes[n] \in NonRetryableFailures =>
              last.result = "ApplianceControlError"
         /\ last.outcomes[n] \in RetryableFailures =>
              n = max_retries + 1 /\ last.result = "RetryableError"
         /\ last.outcomes[n] \in
              EndsWell \cup NonRetryableFailures \cup RetryableFailures
    /\ \A exc \in NonRetryableFailures, attempt \in 0..max_retries :
         /\ retry_after(exc, attempt) = "raise"
         /\ retry_after(turn_off_raises(exc), attempt) = "raise"

\* C9 is met where a turn-off has been given up after a second attempt
\* that found the appliance unavailable, the first having failed in its
\* service call.
C9_Witness ==
    /\ last.op = "turn_off_done"
    /\ last.outcomes = << "ServiceCallError", "EntityUnavailableError" >>
    /\ last.result = "ApplianceControlError"

\* The backoff factors and the caps the schedule of delays is computed
\* for, in milliseconds: those of turn_off_appliance, the defaults of
\* retry_with_backoff, and a cap the doubling reaches.
DelayFactors == {backoff_factor, 1000}
DelayCaps == {1000, max_delay}

\* C31 (backoff schedule): a call of turn_off_appliance that sleeps before
\* its retry number k (from 0) sleeps min(backoff_factor * 2^k, max_delay),
\* which is 0.5 s before the first retry and 1 s before the second; it
\* never sleeps after its final attempt; and for every factor and cap the
\* delays never decrease from one retry to the next and never exceed the
\* cap.
C31_BackoffSchedule ==
    /\ \A i \in DOMAIN tasks :
          tasks[i].kind = "turn_off" =>
            IF tasks[i].pc = "sleeping"
            THEN /\ tasks[i].attempt < max_retries
                 /\ Len(tasks[i].outcomes) = tasks[i].attempt + 1
                 /\ tasks[i].delay = (IF tasks[i].attempt = 0 THEN 500 ELSE 1000)
                 /\ tasks[i].delay <= max_delay
            ELSE tasks[i].delay = 0
    /\ \A factor \in DelayFactors, cap \in DelayCaps, k \in 0 .. max_retries :
          /\ retry_delay(factor, cap, k) <= cap
          /\ retry_delay(factor, cap, k) <= retry_delay(factor, cap, k + 1)
          /\ factor * (2 ^ k) <= cap => retry_delay(factor, cap, k) = factor * (2 ^ k)
          /\ factor * (2 ^ k) > cap => retry_delay(factor, cap, k) = cap

\* C31 is met where a call sleeps the second delay of one second, after
\* two failed attempts.
C31_Witness ==
    \E i \in DOMAIN tasks :
        /\ tasks[i].kind = "turn_off" /\ tasks[i].pc = "sleeping"
        /\ tasks[i].attempt = 1 /\ tasks[i].delay = 1000

\* C37 (a shed is always recorded): when a call of the retried
\* turn_off_appliance returns without an error, for an appliance that was on
\* when the call started, so that its first attempt made the service call,
\* the appliance is in the ledger.
C37_ShedRecorded ==
    ( /\ last.op = "turn_off_done"
      /\ last.result \in EndsWell
      /\ last.outcomes[1] \in RetryableFailures \cup {"ok"} ) =>
        last.entity \in Range(balanced_off)

(***************************************************************************)
(* CircuitBreaker around an awaited function.  Calls of the wrapper may    *)
(* overlap: each is suspended while the function it wraps is awaited.      *)
(***************************************************************************)
\* The latest time the clock reaches.
MaxNow == 4

\* The most calls that await the wrapped function at a time.
MaxCalls == 2

\* failure_threshold: int = 5
failure_threshold == 5

\* timeout, in ticks of the clock: the breaker is built with a cooldown of
\* two ticks.
timeout == 2

\* A variant of _should_allow_request that wants more than the cooldown
\* to have passed.
should_allow_request_late(st, lft, t) ==
    IF st = "CLOSED" THEN [allow |-> TRUE, state |-> st]
    ELSE IF st = "OPEN"
         THEN IF lft /= Absent /\ t - lft > timeout
              THEN [allow |-> TRUE, state |-> "HALF_OPEN"]
              ELSE [allow |-> FALSE, state |-> st]
    ELSE [allow |-> TRUE, state |-> st]

\* _should_allow_request in state st with last failure time lft at time t:
\* its answer and the state it leaves.
should_allow_request(st, lft, t) ==
    IF st = "CLOSED" THEN [allow |-> TRUE, state |-> st]
    ELSE IF st = "OPEN"
         THEN IF lft /= Absent /\ t - lft >= timeout
              THEN [allow |-> TRUE, state |-> "HALF_OPEN"]
              ELSE [allow |-> FALSE, state |-> st]
    ELSE [allow |-> TRUE, state |-> st]

\* A variant of record_success that resets the counter and leaves the state.
record_success_count_only ==
    /\ failure_count' = 0
    /\ UNCHANGED << breaker_state, last_failure_time >>

\* record_success
record_success ==
    /\ failure_count' = 0
    /\ breaker_state' = "CLOSED"
    /\ UNCHANGED last_failure_time

\* record_failure
record_failure ==
    /\ failure_count' = failure_count + 1
    /\ last_failure_time' = now
    /\ breaker_state' = IF failure_count + 1 >= failure_threshold
                        THEN "OPEN" ELSE breaker_state

\* A call of the wrapper that awaits the wrapped function, and the state
\* the breaker let it through in.
GuardedTask(admitted_in) ==
    [kind |-> "guarded", pc |-> "calling", admitted_in |-> admitted_in]

\* The history record of a step of the breaker: the step, how it ended,
\* the state that let the call through, and the failures in a row so far.
Guarded(op, result, admitted_in, streak) ==
    [op |-> op, result |-> result, admitted_in |-> admitted_in,
     streak |-> streak]

\* The wrapper is called: it raises CircuitBreakerOpenError, or awaits the
\* wrapped function.
GuardedCall ==
    /\ Len(tasks) < MaxCalls
    /\ LET r == should_allow_request(breaker_state, last_failure_time, now)
       IN  /\ breaker_state' = r.state
           /\ IF r.allow
              THEN /\ tasks' = Append(tasks, GuardedTask(r.state))
                   /\ last' = Guarded("call", "admitted", r.state, last.streak)
              ELSE /\ tasks' = tasks
                   /\ last' = Guarded("call", "CircuitBreakerOpenError", "",
                                      last.streak)
    /\ UNCHANGED << monitored_sensors, is_balancing_enabled,
                    estimated_total_power, current_sensor_power, balanced_off,
                    hass_states, events, events_left, timer_vars,
                    failure_count, last_failure_time, now >>

\* The wrapped function returns.
GuardedReturns(i) ==
    /\ tasks[i].kind = "guarded"
    /\ record_success
    /\ tasks' = RemoveAt(tasks, i)
    /\ last' = Guarded("success", "ok", tasks[i].admitted_in, 0)
    /\ UNCHANGED << monitored_sensors, is_balancing_enabled,
                    estimated_total_power, current_sensor_power, balanced_off,
                    hass_states, events, events_left, timer_vars, now >>

\* The wrapped function raises (expected_exception is Exception).
GuardedRaises(i) ==
    /\ tasks[i].kind = "guarded"
    /\ record_failure
    /\ tasks' = RemoveAt(tasks, i)
    /\ last' = Guarded("failure", "raised", tasks[i].admitted_in,
                       last.streak + 1)
    /\ UNCHANGED << monitored_sensors, is_balancing_enabled,
                    estimated_total_power, current_sensor_power, balanced_off,
                    hass_states, events, events_left, timer_vars, now >>

\* Time passes.
Tick ==
    /\ now < MaxNow
    /\ now' = now + 1
    /\ last' = Guarded("tick", "", "", last.streak)
    /\ UNCHANGED << loop_vars_but_last, timer_vars, breaker_state,
                    failure_count, last_failure_time >>

\* CircuitBreaker.__init__, and nothing else at work.
InitBreaker ==
    /\ monitored_sensors = << >>
    /\ is_balancing_enabled = TRUE
    /\ estimated_total_power = 0
    /\ current_sensor_power = [s \in Sensors |-> Absent]
    /\ balanced_off = << >>
    /\ hass_states = [a \in Appliances |-> "off"]
    /\ tasks = << >>
    /\ events = << >>
    /\ last = Guarded("init", "", "", 0)
    /\ events_left = 0
    /\ Constructed

NextBreaker ==
    \/ GuardedCall
    \/ \E i \in DOMAIN tasks : GuardedReturns(i)
    \/ \E i \in DOMAIN tasks : GuardedRaises(i)
    \/ Tick

SpecBreaker == InitBreaker /\ [][NextBreaker]_vars

(***************************************************************************)
(* Properties of the breaker.                                              *)
(***************************************************************************)
\* C7 (breaker trip): the failure that makes failure_threshold failures in
\* a row leaves the breaker OPEN; a call made while the breaker is OPEN and
\* less than the cooldown has passed since the last failure fails with
\* CircuitBreakerOpenError and the wrapped function is not invoked; a call
\* made while it is OPEN and the cooldown has passed is let through to the
\* wrapped function.
C7_BreakerTrip ==
    [][ /\ (last'.op = "failure" /\ last'.streak >= failure_threshold)
             => breaker_state' = "OPEN"
        /\ (last'.op = "call" /\ breaker_state = "OPEN") =>
             IF now - last_failure_time < timeout
             THEN /\ last'.result = "CircuitBreakerOpenError"
                  /\ tasks' = tasks
                  /\ breaker_state' = "OPEN"
             ELSE /\ last'.result = "admitted"
                  /\ Len(tasks') = Len(tasks) + 1
      ]_vars

\* C7 is met where, after failure_threshold failures in a row and the
\* cooldown, a call has just been let through.
C7_Witness ==
    /\ last.op = "call" /\ last.result = "admitted"
    /\ last.admitted_in = "HALF_OPEN"
    /\ last.streak = failure_threshold
    /\ now - last_failure_time = timeout
    /\ Len(tasks) = 1

\* C8 (half-open resolution): a call let through in HALF_OPEN closes the
\* breaker and resets the failure counter when it succeeds, and puts the
\* breaker back in OPEN with the last-failure time set to now when it
\* fails.
C8_HalfOpenResolution ==
    [][ (last'.op \in {"success", "failure"}
            /\ last'.admitted_in = "HALF_OPEN") =>
          IF last'.op = "success"
          THEN breaker_state' = "CLOSED" /\ failure_count' = 0
          ELSE breaker_state' = "OPEN" /\ last_failure_time' = now
      ]_vars

(***************************************************************************)
(* The timer registry of ApplianceController on its own: a caller          *)
(* schedules and cancels restoration timers and cleans the controller up   *)
(* while the timers run.                                                   *)
(***************************************************************************)
\* A caller invokes cancel_scheduled_turn_on(entity_id).
CancelScheduledTurnOn(a) ==
    /\ Spend
    /\ cancel_scheduled_turn_on(a)
    /\ last' = Decided(IF HasLiveTimer(a) THEN "cancel" ELSE "cancel_none",
                       a, FALSE)
    /\ UNCHANGED << monitored_sensors, is_balancing_enabled,
                    estimated_total_power, current_sensor_power, balanced_off,
                    tasks, events, breaker_vars >>

\* A variant of cleanup that clears the expected wattages and the ledger
\* and leaves the timers alone.
cleanup_keeping_timers ==
    /\ Spend
    /\ expected_power_restoration' = EmptyDict
    /\ balanced_off' = << >>
    /\ last' = Decided("cleanup", "", FALSE)
    /\ UNCHANGED << monitored_sensors, is_balancing_enabled,
                    estimated_total_power, current_sensor_power, hass_states,
                    scheduled_auto_turn_ons, tasks, events, breaker_vars >>

\* ApplianceController.cleanup: every timer that has not finished is
\* cancelled (one that awaits its service call before or after the platform
\* switched), and the registry, the expected wattages and the ledger are
\* cleared.  The history keeps the appliances whose timer was cancelled.
Cleanup ==
    /\ Spend
    /\ hass_states' \in
           {h \in [Appliances -> ApplianceStates] :
               \A a \in Appliances :
                   \/ h[a] = hass_states[a]
                   \/ /\ dict_get(scheduled_auto_turn_ons, a, "") = "calling"
                      /\ h[a] = "on"}
    /\ scheduled_auto_turn_ons' = EmptyDict
    /\ expected_power_restoration' = EmptyDict
    /\ balanced_off' = << >>
    /\ last' = [op |-> "cleanup", entity |-> "", issued |-> FALSE,
                cancelled |-> {a \in Appliances : HasLiveTimer(a)}]
    /\ UNCHANGED << monitored_sensors, is_balancing_enabled,
                    estimated_total_power, current_sensor_power, tasks,
                    events, breaker_vars >>

\* The controller after construction and the turn-offs that filled its
\* ledger, with the estimate of the monitor anywhere up to the budget's
\* neighbourhood.  A run sees two calls more than the runs of the control
\* loop see events: enough to schedule, let the timer run, and schedule or
\* cancel again.
InitTimers ==
    /\ monitored_sensors = << SensorConfigDefaults("sensor.s1", "switch.a1"),
                             SensorConfigDefaults("sensor.s2", "switch.a2") >>
    /\ is_balancing_enabled \in BOOLEAN
    /\ estimated_total_power \in 0..MaxMain
    /\ current_sensor_power = [s \in Sensors |-> Absent]
    /\ balanced_off \in {l \in Ledgers : Len(l) = Cardinality(Range(l))}
    /\ hass_states = [a \in Appliances |-> "off"]
    /\ tasks = << >>
    /\ events = << >>
    /\ last = Decided("init", "", FALSE)
    /\ events_left = MaxSteps + 2
    /\ Constructed

NextTimers ==
    \/ \E a \in Appliances, e \in ExpectedWatts : ScheduleAutoTurnOn(a, e)
    \/ \E a \in Appliances : CancelScheduledTurnOn(a)
    \/ \E a \in Appliances : AutoTurnOnExpires(a)
    \/ \E a \in Appliances, o \in CallOutcomes : AutoTurnOnReturns(a, o)
    \/ Cleanup
    \/ \E a \in Appliances, new \in ApplianceStates : StateWritten(a, new)

SpecTimers == InitTimers /\ [][NextTimers]_vars

(***************************************************************************)
(* Properties of the timer registry.                                       *)
(***************************************************************************)
\* The timer tasks of an appliance that have not finished: the one the
\* registry refers to, and those that run on outside it.
LiveTimers(a) ==
    (IF HasLiveTimer(a) THEN 1 ELSE 0)
      + Cardinality({i \in DOMAIN tasks :
                        tasks[i].kind = "auto_turn_on" /\ tasks[i].app = a})

InitPolicy ==
    /\ monitored_sensors = << SensorConfigDefaults("sensor.s1", "switch.a1"),
                             SensorConfigDefaults("sensor.s2", "switch.a2") >>
    /\ is_balancing_enabled = TRUE
    /\ estimated_total_power \in 0..MaxMain
    /\ current_sensor_power = [s \in Sensors |-> Absent]
    /\ balanced_off \in {l \in Ledgers : Len(l) = Cardinality(Range(l))}
    /\ hass_states = [a \in Appliances |-> "off"]
    /\ tasks = << >>
    /\ events = << >>
    /\ last = Decided("init", "", FALSE)
    /\ events_left = MaxSteps + 1
    /\ Constructed

SpecPolicy == InitPolicy /\ [][NextRestore]_vars

CallEnded == "platform" \in DOMAIN last

\* C20 (timeout classification): when the platform call of safe_service_call
\* has not completed within the timeout, what safe_service_call raises to
\* its caller is a ServiceTimeoutError and not a plain ServiceCallError.
C20_TimeoutClassification ==
    (CallEnded /\ last.platform \in {"timeout", "timeout_switched"}) =>
        last.raised = "ServiceTimeoutError"

(***************************************************************************)
(* The services of the integration (turn_off_appliance,                    *)
(* turn_on_appliance) and the events of an appliance whose attributes      *)
(* change while its state stays what it was.                               *)
(***************************************************************************)
\* The part of async_turn_on_appliance_service before its await: "raise"
\* (validate_entity_state raised), "return" (the appliance is not 'off'),
\* "call" (safe_service_call awaited).
turn_on_entry(a) ==
    IF hass_states[a] \in {"unknown", "unavailable"} THEN "raise"
    ELSE IF hass_states[a] /= "off" THEN "return"
    ELSE "call"

\* A call of a service of the integration, suspended in safe_service_call.
ServiceTask(service, a) ==
    [kind |-> service, app |-> a, pc |-> "calling", attempt |-> 0]

\* The service power_load_balancer.turn_off_appliance is called for a:
\* async_turn_off_appliance_service up to its await.
TurnOffApplianceService(a) ==
    /\ Outside
    /\ tasks' = IF turn_off_entry(a) = "call"
                THEN Append(tasks, ServiceTask("turn_off_service", a))
                ELSE tasks
    /\ last' = Env("turn_off_service_" \o turn_off_entry(a), a)
    /\ UNCHANGED << monitored_sensors, is_balancing_enabled,
                    estimated_total_power, current_sensor_power, balanced_off,
                    hass_states, events >>

\* The service call of async_turn_off_appliance_service ends: after it
\* returned the service fires its logbook entry and logs; after it raised the
\* service raises an ApplianceControlError to the platform.  The function is
\* not wrapped by retry_with_backoff: one attempt, and the ledger as it was.
TurnOffServiceReturns(i, outcome) ==
    /\ Inside
    /\ tasks[i].kind = "turn_off_service"
    /\ PlatformTurnOff(tasks[i].app, outcome)
    /\ tasks' = RemoveAt(tasks, i)
    /\ last' = Env(IF safe_service_call_raises(outcome) = ""
                   THEN "turn_off_service_ok" ELSE "turn_off_service_failed",
                   tasks[i].app)
    /\ UNCHANGED << monitored_sensors, is_balancing_enabled,
                    estimated_total_power, current_sensor_power, balanced_off >>

\* The service power_load_balancer.turn_on_appliance is called for a:
\* async_turn_on_appliance_service up to its await.
TurnOnApplianceService(a) ==
    /\ Outside
    /\ tasks' = IF turn_on_entry(a) = "call"
                THEN Append(tasks, ServiceTask("turn_on_service", a))
                ELSE tasks
    /\ last' = Env("turn_on_service_" \o turn_on_entry(a), a)
    /\ UNCHANGED << monitored_sensors, is_balancing_enabled,
                    estimated_total_power, current_sensor_power, balanced_off,
                    hass_states, events >>

\* The appliance states and events after a turn-on call with this outcome.
PlatformSwitchOn(a, outcome) ==
    IF outcome \in {"ok", "timeout_switched"} /\ hass_states[a] = "off"
    THEN /\ hass_states' = [hass_states EXCEPT ![a] = "on"]
         /\ events' = Append(events, StateChanged(a, "off", "on"))
    ELSE UNCHANGED << hass_states, events >>

\* The service call of async_turn_on_appliance_service ends: one attempt,
\* and the ledger as it was.
TurnOnServiceReturns(i, outcome) ==
    /\ Inside
    /\ tasks[i].kind = "turn_on_service"
    /\ PlatformSwitchOn(tasks[i].app, outcome)
    /\ tasks' = RemoveAt(tasks, i)
    /\ last' = Env(IF safe_service_call_raises(outcome) = ""
                   THEN "turn_on_service_ok" ELSE "turn_on_service_failed",
                   tasks[i].app)
    /\ UNCHANGED << monitored_sensors, is_balancing_enabled,
                    estimated_total_power, current_sensor_power, balanced_off >>

\* An attribute of appliance a changes: the platform fires state_changed
\* with old_state.state equal to new_state.state.
AttributeChange(a) ==
    /\ Outside
    /\ events' = Append(events, StateChanged(a, hass_states[a], hass_states[a]))
    /\ last' = Env("attribute", a)
    /\ UNCHANGED << monitored_sensors, is_balancing_enabled,
                    estimated_total_power, current_sensor_power, balanced_off,
                    hass_states, tasks >>

\* The starts of the runs with services: the balancer some time after setup,
\* with no task and no event pending.  An appliance is in the ledger after
\* _turn_off_appliance has turned it off, so a recorded appliance is off and
\* its circuit is not tracked.
InitServices ==
    /\ monitored_sensors \in Configs
    /\ is_balancing_enabled = TRUE
    /\ estimated_total_power \in 0..MaxMain
    /\ hass_states \in [Appliances -> {"on", "off"}]
    /\ balanced_off \in {l \in Ledgers : /\ Cardinality(Range(l)) = Len(l)
                                         /\ \A k \in DOMAIN l :
                                                hass_states[l[k]] = "off"}
    /\ current_sensor_power \in
           {f \in [Sensors -> {Absent, MaxWatt}] :
               \A a \in Range(balanced_off) : f[get_sensor_for_appliance(a)] = Absent}
    /\ tasks = << >>
    /\ events = << >>
    /\ last = Env("init", "")
    /\ events_left = MaxSteps
    /\ Constructed

NextServices ==
    \/ \E a \in Appliances : TurnOffApplianceService(a)
    \/ \E i \in DOMAIN tasks, o \in CallOutcomes : TurnOffServiceReturns(i, o)
    \/ \E a \in Appliances : TurnOnApplianceService(a)
    \/ \E i \in DOMAIN tasks, o \in CallOutcomes : TurnOnServiceReturns(i, o)
    \/ \E a \in Appliances : AttributeChange(a)
    \/ \E r \in SensorReports : ApplianceEvent(r)
    \/ \E i \in DOMAIN tasks : StartPolicyOff(i)
    \/ \E i \in DOMAIN tasks, o \in CallOutcomes : EndPolicyOff(i, o)
    \/ \E i \in DOMAIN tasks : AdmitOffReturns(i)
    \/ \E i \in DOMAIN tasks : EndAdmitOffOk(i)
    \/ \E i \in DOMAIN tasks, o \in CallOutcomes : EndAdmitOffFail(i, o)
    \/ \E i \in DOMAIN tasks : RetryAdmitOff(i)

SpecServices == InitServices /\ [][NextServices]_vars

\* C21 (force services keep the ledger): after a successful call of the
\* turn-off service for an appliance the appliance is recorded in the shed
\* ledger, and after a successful call of the turn-on service for an
\* appliance the appliance is not in the ledger.
C21_ForceServicesLedger ==
    /\ last.op = "turn_off_service_ok" => last.entity \in Range(balanced_off)
    /\ last.op = "turn_on_service_ok" => last.entity \notin Range(balanced_off)

\* C29 (new load counted once): the handler of an appliance event adds the
\* circuit's wattage to the estimate only for a change from off to on; an
\* event whose new state is 'on' and whose old state is not 'off' leaves the
\* estimate where it was, but for the optimistic reduction of the
\* evaluation that follows.
C29_NewLoadCountedOnce ==
    [][(last'.op = "appliance_on" /\ events /= << >> /\ Head(events).old /= "off")
          => estimated_total_power' + TotalCut(last'.evals)
                 = estimated_total_power]_vars

(***************************************************************************)
(* The control loop on a platform where one appliance cannot be turned     *)
(* off: the main meter goes on reporting a total over the budget, and      *)
(* every turn-off call for the appliance fails.                            *)
(***************************************************************************)
\* The appliance whose turn-off calls fail: the first the shedding policy
\* selects under either configuration.
BrokenAppliance == "switch.a2"

\* The reports of the main meter that are over the budget.
OverBudgetReports == {Num(n) : n \in (power_budget + 1)..MaxMain}

\* The main meter reports r once more and the event is handled, the event
\* loop holding fewer than MaxTasks coroutines.
RepeatedReading(r) ==
    LET out == power_sensor_state_change(main_power_sensor_entity_id, r)
    IN  /\ Inside
        /\ Len(tasks) < MaxTasks
        /\ Commit(out.st)
        /\ last' = Did(out.op, main_power_sensor_entity_id, out.watts, out.st)
        /\ UNCHANGED << monitored_sensors, is_balancing_enabled, hass_states,
                        events >>

\* The service call of turn_off_task ends, with a failure when it was for
\* the appliance that cannot be turned off.
PolicyOffEnds(i, outcome) ==
    /\ tasks[i].app = BrokenAppliance => outcome \in {"error", "timeout"}
    /\ EndPolicyOff(i, outcome)

\* The balancer after setup with every appliance on.
InitIsolation ==
    /\ monitored_sensors \in Configs
    /\ is_balancing_enabled = TRUE
    /\ estimated_total_power \in 0..MaxMain
    /\ current_sensor_power \in [Sensors -> {Absent} \cup 0..MaxWatt]
    /\ balanced_off = << >>
    /\ hass_states = [a \in Appliances |-> "on"]
    /\ tasks = << >>
    /\ events = << >>
    /\ last = Env("init", "")
    /\ events_left = 0
    /\ Constructed

\* The steps of the event loop that start and end the turn-off tasks.
TaskSteps ==
    \/ \E i \in DOMAIN tasks : StartPolicyOff(i)
    \/ \E i \in DOMAIN tasks, o \in CallOutcomes : PolicyOffEnds(i, o)

NextIsolation ==
    \/ \E r \in OverBudgetReports : RepeatedReading(r)
    \/ TaskSteps

\* The main meter reports again and again, and a task that can run does.
SpecIsolation ==
    /\ InitIsolation
    /\ [][NextIsolation]_vars
    /\ WF_vars(\E r \in OverBudgetReports : RepeatedReading(r))
    /\ WF_vars(TaskSteps)

\* Another appliance than the broken one may be shed: it is on, not recorded
\* and not last-resort.
OtherEligible ==
    \E k \in DOMAIN monitored_sensors :
        /\ monitored_sensors[k].appliance /= BrokenAppliance
        /\ Eligible(monitored_sensors[k], balanced_off)

\* C22 (failure isolation): when every turn-off call for one appliance
\* fails while the total stays over the budget and another appliance is
\* eligible, the evaluations that follow eventually select the other
\* appliance for shedding.
C22_FailureIsolation ==
    OtherEligible =>
        <>(\E a \in Appliances \ {BrokenAppliance} : a \in Range(AllShed(last.evals)))

(***************************************************************************)
(* Readings the handler of the power sensors does not accept.              *)
(***************************************************************************)
\* get_sensor_power: the tracked wattage of a sensor, 0.0 when untracked.
get_sensor_power(csp, entity_id) ==
    IF entity_id \in DOMAIN csp /\ csp[entity_id] /= Absent
    THEN csp[entity_id] ELSE 0

\* C23 (malformed readings): a reading of a circuit sensor that is not a
\* number or is negative is rejected inside the handler, leaves the
\* estimate as it was and drops the circuit's contribution: the wattage
\* tracked for the circuit is 0 afterwards.
C23_MalformedReading ==
    [][(last'.op = "rejected_reading" /\ last'.entity \in Sensors) =>
          /\ estimated_total_power' = estimated_total_power
          /\ get_sensor_power(current_sensor_power', last'.entity) = 0]_vars

\* C24 (unknown and unavailable readings): an event whose new state is
\* missing, 'unknown' or 'unavailable' removes the wattage tracked for the
\* sensor, leaves the estimate as it was, for the main meter too, and runs
\* no evaluation: no policy is invoked and no task created.
C24_InvalidReading ==
    [][last'.op = "invalid_reading" =>
          /\ get_sensor_power(current_sensor_power', last'.entity) = 0
          /\ \A s \in Sensors \ {last'.entity} :
                 current_sensor_power'[s] = current_sensor_power[s]
          /\ estimated_total_power' = estimated_total_power
          /\ last'.evals = << >>
          /\ tasks' = tasks
          /\ balanced_off' = balanced_off]_vars

\* C24 is met where such an event has been handled while balancing is
\* enabled, the estimate is over the budget and an appliance could be shed:
\* an evaluation would have created a task, and there is none.
C24_Witness ==
    /\ last.op = "invalid_reading"
    /\ is_balancing_enabled
    /\ estimated_total_power > power_budget
    /\ \E k \in DOMAIN monitored_sensors :
           Eligible(monitored_sensors[k], balanced_off)
    /\ tasks = << >>

(***************************************************************************)
(* The control loop under configurations whose entries share one           *)
(* importance.                                                             *)
(***************************************************************************)
\* Two entries of importance 5 listed against the order of their names, and
\* an entry that leaves its importance out listed before one that gives 5.
TieConfigs ==
    { << SensorConfig("sensor.s2", "switch.a2", DefaultImportance, FALSE),
         SensorConfig("sensor.s1", "switch.a1", DefaultImportance, FALSE) >>,
      << SensorConfigDefaults("sensor.s1", "switch.a1"),
         SensorConfig("sensor.s2", "switch.a2", DefaultImportance, FALSE) >> }

\* The state after __init__ and async_setup under such a configuration,
\* every circuit sensor having had a usable state.
InitTie ==
    /\ monitored_sensors \in TieConfigs
    /\ is_balancing_enabled = TRUE
    /\ estimated_total_power \in 0..MaxMain
    /\ current_sensor_power = [s \in Sensors |-> MaxWatt]
    /\ balanced_off = << >>
    /\ hass_states \in [Appliances -> {"on", "off"}]
    /\ tasks = << >>
    /\ events = << >>
    /\ last = Env("init", "")
    /\ events_left = MaxSteps
    /\ Constructed

SpecTie == InitTie /\ [][Next]_vars

\* C25 (tie-break): every appliance an over-budget evaluation selects
\* belongs to an entry that may be shed and whose importance is the smallest
\* among the entries that may be shed, and no entry that may be shed with
\* the same importance comes before it in the configured list.
C25_TieBreak ==
    \A i \in DOMAIN last.evals :
        \A k \in DOMAIN last.evals[i].shed :
            \E j \in DOMAIN monitored_sensors :
                /\ monitored_sensors[j].appliance = last.evals[i].shed[k]
                /\ MayBeShed(monitored_sensors[j])
                /\ \A m \in DOMAIN monitored_sensors :
                       MayBeShed(monitored_sensors[m]) =>
                           \/ Importance(monitored_sensors[j])
                                  < Importance(monitored_sensors[m])
                           \/ /\ Importance(monitored_sensors[j])
                                     = Importance(monitored_sensors[m])
                              /\ j <= m

\* C25 is met where both entries may be shed, have the same importance, and
\* an evaluation after a reading has selected the appliance of the first.
C25_Witness ==
    /\ Importance(monitored_sensors[1]) = Importance(monitored_sensors[2])
    /\ \A cfg \in Range(monitored_sensors) : MayBeShed(cfg)
    /\ last.op = "reading"
    /\ AllShed(last.evals) = << monitored_sensors[1].appliance >>

\* C26 (a failed shed leaves the state conservative): when the turn-off call
\* of a task of the shedding policy fails, the estimate keeps the optimistic
\* reduction, the ledger is as it was, no timer is armed, and no exception
\* leaves the task, which ends.
C26_FailedShed ==
    [][\A a \in Appliances :
          (last'.op = "policy_off_failed" /\ last'.entity = a) =>
              /\ estimated_total_power' = estimated_total_power
              /\ current_sensor_power' = current_sensor_power
              /\ balanced_off' = balanced_off
              /\ scheduled_auto_turn_ons' = scheduled_auto_turn_ons
              /\ expected_power_restoration' = expected_power_restoration
              /\ last'.raised = ""
              /\ Len(tasks') = Len(tasks) - 1]_vars

\* C26 is met where the turn-off call for an appliance whose circuit is
\* tracked has failed and left the appliance on: the estimate is within the
\* budget by the reduction alone.
C26_Witness ==
    /\ last.op = "policy_off_failed"
    /\ hass_states[last.entity] = "on"
    /\ last.entity \notin Range(balanced_off)
    /\ get_sensor_power_for_appliance(current_sensor_power, last.entity) > 0
    /\ estimated_total_power =
           MaxMain - get_sensor_power_for_appliance(current_sensor_power, last.entity)
    /\ tasks = << >>

(***************************************************************************)
(* The order of restoration, and ledger entries whose appliance is no      *)
(* longer off.                                                             *)
(***************************************************************************)
\* C27 (restoration order): a run of the restoration policy that issues a
\* restore issues it for the oldest ledger entry that is off and fits the
\* headroom, and for no other appliance: one restore task is created.
C27_RestorationOrder ==
    [][(last'.op = "balance_up" /\ last'.issued) =>
          /\ \E j \in DOMAIN balanced_off :
                 /\ balanced_off[j] = last'.entity
                 /\ MayRestore(balanced_off[j])
                 /\ \A m \in 1..(j - 1) : ~ MayRestore(balanced_off[m])
          /\ tasks' = Append(tasks, RestoreTask(last'.entity))]_vars

\* C27 is met where the ledger holds two appliances that are off and fit the
\* headroom each, and the policy has issued a restore for the older one.
C27_Witness ==
    /\ last.op = "balance_up" /\ last.issued
    /\ Len(balanced_off) = 2
    /\ \A k \in DOMAIN balanced_off : MayRestore(balanced_off[k])
    /\ last.entity = balanced_off[1]
    /\ tasks = << RestoreTask(balanced_off[1]) >>

\* C28 (stale ledger entries): when a run of the restoration policy meets a
\* ledger entry whose appliance is not off, it issues no restore for it and
\* removes the entry from the ledger.
C28_StaleEntries ==
    [][last'.op = "balance_up" =>
          \A j \in DOMAIN balanced_off :
              (/\ hass_states[balanced_off[j]] /= "off"
               /\ \A m \in 1..(j - 1) : ~ MayRestore(balanced_off[m])) =>
                  /\ ~ (last'.issued /\ last'.entity = balanced_off[j])
                  /\ balanced_off[j] \notin Range(balanced_off')]_vars

(***************************************************************************)
(* Calls that overlap in a breaker that is HALF_OPEN.                      *)
(***************************************************************************)
\* The calls the breaker let through in HALF_OPEN that still await the
\* wrapped function.
Probes(ts) == {i \in DOMAIN ts : ts[i].kind = "guarded" /\ ts[i].admitted_in = "HALF_OPEN"}

\* C30 (single half-open probe): a call made while the breaker is HALF_OPEN
\* and a call it let through in HALF_OPEN still awaits the wrapped function
\* is not passed to the wrapped function; at most one such call is in
\* flight.
C30_SingleProbe ==
    [][(last'.op = "call" /\ breaker_state = "HALF_OPEN" /\ Probes(tasks) /= {}) =>
          /\ last'.result = "CircuitBreakerOpenError"
          /\ tasks' = tasks
          /\ Cardinality(Probes(tasks')) <= 1]_vars

(***************************************************************************)
(* Units: the control loop with sensors that report in any unit, from the  *)
(* initial reads of async_setup on.                                        *)
(***************************************************************************)
\* state.attributes.get("unit_of_measurement", "W").lower() of the sensors:
\* watts, kilowatts, megawatts, gigawatts and a unit that is none of them.
Units == {"w", "kw", "mw", "gw", "va"}

\* The states a sensor has under these units: zero or one of the unit, or
\* unavailable.
UnitReports ==
    {[kind |-> "num", v |-> n, unit |-> u] : n \in 0..1, u \in Units}
        \cup {Txt("unavailable")}

\* async_setup, the initial read of the main meter: the estimate.
setup_main_power(state) ==
    IF state.kind \in {"none", "unknown", "unavailable"} THEN 0
    ELSE IF state.kind /= "num" THEN 0
    ELSE balancer_convert_power_to_watts(state.v, state.unit)

\* async_setup, the initial read of a circuit sensor: its tracked wattage,
\* none when the state is not usable.
setup_sensor_power(state) ==
    IF state.kind /= "num" THEN Absent
    ELSE balancer_convert_power_to_watts(state.v, state.unit)

\* The history record of async_setup: the states it read.
SetUp(main_state, sensor_states) ==
    [op |-> "setup", entity |-> main_power_sensor_entity_id,
     watts |-> setup_main_power(main_state), evals |-> << >>,
     ledger_before |-> << >>, raw |-> main_state, raws |-> sensor_states]

\* The state after __init__ and async_setup with sensors in any unit.
InitUnits ==
    /\ monitored_sensors = << SensorConfigDefaults("sensor.s1", "switch.a1"),
                             SensorConfigDefaults("sensor.s2", "switch.a2") >>
    /\ is_balancing_enabled = TRUE
    /\ \E main_state \in UnitReports, sensor_states \in [Sensors -> UnitReports] :
          /\ estimated_total_power = setup_main_power(main_state)
          /\ current_sensor_power =
                 [s \in Sensors |-> setup_sensor_power(sensor_states[s])]
          /\ last = SetUp(main_state, sensor_states)
    /\ balanced_off = << >>
    /\ hass_states \in [Appliances -> {"on", "off"}]
    /\ tasks = << >>
    /\ events = << >>
    /\ events_left = MaxSteps
    /\ Constructed

NextUnits ==
    \/ \E r \in UnitReports : MainSensorEvent(r)
    \/ \E s \in Sensors, r \in UnitReports : CircuitSensorEvent(s, r)
    \/ \E a \in Appliances, new \in ApplianceStates : ExternalChange(a, new)
    \/ \E r \in UnitReports : ApplianceEvent(r)
    \/ \E i \in DOMAIN tasks : StartPolicyOff(i)
    \/ \E i \in DOMAIN tasks, o \in CallOutcomes : EndPolicyOff(i, o)
    \/ \E i \in DOMAIN tasks : AdmitOffReturns(i)
    \/ \E i \in DOMAIN tasks : EndAdmitOffOk(i)
    \/ \E i \in DOMAIN tasks, o \in CallOutcomes : EndAdmitOffFail(i, o)
    \/ \E i \in DOMAIN tasks : RetryAdmitOff(i)

SpecUnits == InitUnits /\ [][NextUnits]_vars

\* The watts of a numeric state as the unit prescribes: the value for watts,
\* a thousand times it for kilowatts, a million times for megawatts, a
\* billion times for gigawatts, and the value itself for any other unit.
Normalised(state) ==
    CASE state.unit = "kw" -> state.v * 1000
      [] state.unit = "mw" -> state.v * 1000000
      [] state.unit = "gw" -> state.v * 1000000000
      [] OTHER -> state.v

\* C34 (unit normalisation): the initial reads of async_setup, the handling
\* of a reading of the main meter or of a circuit sensor, and the wattage
\* computed for an appliance observed on each turn a numeric state into the
\* watts its unit prescribes.
C34_UnitNormalisation ==
    /\ last.op = "setup" =>
          /\ last.raw.kind = "num" =>
                 estimated_total_power = Normalised(last.raw)
          /\ \A s \in Sensors :
                 last.raws[s].kind = "num" =>
                     current_sensor_power[s] = Normalised(last.raws[s])
    /\ [][ \A r \in UnitReports :
              r.kind = "num" =>
                /\ MainSensorEvent(r) => last'.watts = Normalised(r)
                /\ \A s \in Sensors :
                       CircuitSensorEvent(s, r) => last'.watts = Normalised(r)
                /\ (ApplianceEvent(r) /\ last'.op = "appliance_on") =>
                       last'.watts = Normalised(r) ]_vars


(***************************************************************************)
(* One shed between two readings of the main meter: the control loop from  *)
(* the initial reads of async_setup, which found the main meter over the   *)
(* budget and every circuit at a tracked wattage with its appliance on, in *)
(* runs in which the main meter does not report again and nothing but the  *)
(* balancer switches an appliance.  Circuit readings and enable_balancing  *)
(* run the evaluation; the turn-off tasks and the appliance events they    *)
(* cause run in any order.                                                 *)
(***************************************************************************)
InitOnce ==
    /\ monitored_sensors \in Configs
    /\ is_balancing_enabled = TRUE
    /\ estimated_total_power \in (power_budget + 1) .. (power_budget + 2 * MaxWatt)
    /\ current_sensor_power \in [Sensors -> 1..MaxWatt]
    /\ balanced_off = << >>
    /\ hass_states = [a \in Appliances |-> "on"]
    /\ tasks = << >>
    /\ events = << >>
    /\ last = Env("init", "")
    /\ events_left = MaxSteps + 1
    /\ Constructed

NextOnce ==
    \/ \E s \in Sensors, r \in SensorReports : CircuitSensorEvent(s, r)
    \/ enable_balancing
    \/ \E r \in SensorReports : ApplianceEvent(r)
    \/ \E i \in DOMAIN tasks : StartPolicyOff(i)
    \/ \E i \in DOMAIN tasks, o \in CallOutcomes : EndPolicyOff(i, o)

SpecOnce == InitOnce /\ [][NextOnce]_vars

\* C35 (exactly-once subtraction per shed): between two readings of the main
\* meter the tracked wattage of a shed appliance is taken from the estimate
\* once, at the shed.  (a) No evaluation selects, and subtracts for, an
\* appliance whose turn-off task from an earlier shed has not ended.  (b) The
\* handling of the on-to-off event of a shed appliance takes nothing from
\* the estimate for it: the estimate changes by what the evaluation that
\* follows in the handler subtracts for another appliance, and no more.
C35_ExactlyOnce ==
    [][ /\ \A i \in DOMAIN last'.evals :
              \A k \in DOMAIN last'.evals[i].shed :
                  ~ \E j \in DOMAIN tasks :
                        /\ tasks[j].kind = "policy_off"
                        /\ tasks[j].app = last'.evals[i].shed[k]
        /\ last'.op = "appliance_off" =>
              estimated_total_power' =
                  estimated_total_power - TotalCut(last'.evals) ]_vars


\* C36 (non-negative estimate): whatever accepted readings, sheds and
\* appliance events the control loop has handled, the estimate of the total
\* power is not negative.
C36_NonNegativeEstimate == estimated_total_power >= 0


\* C38 (disabled means hands-off): a step that begins and ends with
\* balancing disabled, whatever event it handles, creates no task that
\* turns an appliance off or on; and enable_balancing runs one evaluation.
C38_DisabledHandsOff ==
    [][ /\ (~ is_balancing_enabled /\ ~ is_balancing_enabled') =>
              Len(tasks') <= Len(tasks)
        /\ last'.op = "enable" => Len(last'.evals) = 1 ]_vars


\* C39 (breaker state and counter agree): the state of the breaker is one
\* of CLOSED, OPEN and HALF_OPEN; while it is CLOSED fewer failures than
\* failure_threshold are counted; while it is OPEN or HALF_OPEN at least
\* failure_threshold failures are counted and the time of the last failure
\* is recorded.
C39_BreakerConsistency ==
    /\ breaker_state \in {"CLOSED", "OPEN", "HALF_OPEN"}
    /\ breaker_state = "CLOSED" => failure_count < failure_threshold
    /\ breaker_state \in {"OPEN", "HALF_OPEN"} =>
          /\ failure_count >= failure_threshold
          /\ last_failure_time /= Absent

\* C39 is met where the breaker is HALF_OPEN with two calls let through
\* and awaiting the wrapped function, after a failure beyond the threshold
\* had reopened it.
C39_Witness ==
    /\ breaker_state = "HALF_OPEN"
    /\ failure_count > failure_threshold
    /\ Len(tasks) = 2

=============================================================================
